---- MODULE Spec2Model ----
(***************************************************************************)
(* State-machine model of the sandbox executor (koyeb/sandbox-container):  *)
(*   - the TCP proxy controller (bind/unbind of the forward target),       *)
(*   - the TCP proxy listener (accept loop, connection handlers, Stop),    *)
(*   - the process supervisor (start, kill, completion watcher, readers).  *)
(* Every lock-protected section of the Go code is one atomic action; the   *)
(* code between two such sections is a position (pc) of the goroutine.     *)
(***************************************************************************)
EXTENDS Integers, Sequences, FiniteSets, TLC

\* Number of HTTP handler goroutines that may serve /bind_port and
\* /unbind_port at the same time.
MaxHandlers == 2
\* Number of client connections the proxy listener may hold at a time.
MaxConns == 1
\* Bytes a forwarded connection may carry before the model stops counting.
MaxBytes == 2

Ports == {"9000", "9001"}
Reqs == 1..MaxHandlers
\* A client that waits for each response before it sends the next request.
SeqReqs == {1}
Conns == 1..MaxConns
Dirs == {"up", "down"}

\* Number of background processes the supervisor is asked to start.
MaxProcs == 1
\* Last value of the wall clock.
MaxClock == 2
\* Number of log subscriptions taken on one process.
MaxObservers == 1
\* Number of StartProcess calls where only the map and the records are
\* followed (MapSpec).
MaxIds == 2
Ids == 1..MaxIds
ProcIds == 1..MaxProcs
\* Largest capacity of a log buffer (NewLogBuffer(maxEntries)).
MaxCap == 2
\* Number of Append calls followed on the stand-alone log buffer.
MaxAppends == 4
\* What a log entry may carry.
Data == {"a", "b"}
\* Number of lines a child writes to one of its output streams.
MaxLines == 2
\* Capacity of a subscriber channel (make(chan LogEntry, 100)).
ChanCap == 2
\* Number of lines an OS pipe holds before a write to it blocks.
PipeCap == 1
\* The process whose output and subscribers are followed.
LogIds == {1}
Streams == {"stdout", "stderr"}
Subs == 1..MaxObservers
Clock == 1..MaxClock
\* Exit codes a child may pass to exit().
ExitCodes == {0, 3}
Terminal == {"completed", "failed", "killed"}

VARIABLES
    targetPort,     \* TCPProxy.targetPort ("" = unbound)
    reqPc,          \* position of each HTTP handler goroutine
    reqKind,        \* "bind" | "unbind" | "none": route being served
    reqPort,        \* BindPortRequest.Port decoded by the handler
    reqResp,        \* response written by the handler
    reqHist,        \* history: what held when the request started
    lastOp,         \* history: route of the request that returned last
    mainPc,         \* position of main() (serving, shutdown, Stop steps,
                    \* or exited after log.Fatalf)
    proxyListener,  \* TCPProxy.listener # nil
    lnListener,     \* TCPListener.listener: "nil" | "open" | "closed"
    stopChan,       \* TCPListener.stopChan is closed
    wg,             \* TCPListener.wg counter
    startPc,        \* position of the StartTCPProxy goroutine
    acceptPc,       \* position of the acceptLoop goroutine
    acceptConn,     \* connection returned by Accept, not yet handed over
    connPc,         \* position of each connection (client + handler)
    connTarget,     \* handler-local targetPort read at its start
    connReads,      \* reads performed on the client by the idle branch
    connDials,      \* DialTCP calls made by the handler
    upAddr,         \* address the handler passed to DialTCP ("" = none yet)
    connBytes,      \* bytes copied by the two io.Copy goroutines
    connOpen,       \* the client connection is open (not yet Close()d)
    upOpen,         \* the upstream connection (targetConn) is open
    copier,         \* state of the two copier goroutines per connection
    procs,          \* ProcessManager.processes: the registered ids
    nextId,         \* next fresh id (uuid.New())
    now,            \* the last reading of time.Now()
    status,         \* Process.Status ("none": no such record yet)
    endTime,        \* Process.EndTime (0 = nil)
    exitSet,        \* Process.ExitCode # nil
    exitCode,       \* *Process.ExitCode
    child,          \* the OS child: "none", "alive", "dead" or "reaped"
    waitStatus,     \* how the child died (cmd.ProcessState)
    procMu,         \* Process.mu: "free", or write-held by the "watcher"
    watchPc,        \* position of the waitForCompletion goroutine
    done,           \* Process.done is closed
    killPc,         \* position of a KillProcess call on the process
    killRes,        \* result of the last KillProcess call on the process
    view,           \* what the last ToJSON of the process returned
    observers,      \* number of channels in Process.observers
    killOk,         \* a KillProcess call on the process has returned nil
    startProcPc,    \* position of the StartProcess call that made the process
    pid,            \* Process.PID (0 = not set)
    callerView,     \* status the caller of StartProcess read from its result
    listView,       \* ids in the last ListProcesses result
    lookup,         \* the last lookup by id and what it found
    lbMax,          \* LogBuffer.maxEntries of the stand-alone buffer
    lbEntries,      \* LogBuffer.entries of the stand-alone buffer
    lbHist,         \* every entry appended to it so far, in order
    lbSnap,         \* result of the last GetAll on it
    lbSnapAt,       \* number of appends made before that GetAll
    lbPrev,         \* result of the GetAll before the last one
    lbPrevAt,       \* number of appends made before that earlier GetAll
    written,        \* lines the child has written, per stream
    pipe,           \* lines in the OS pipe, written and not yet read
    ring,           \* Process.stdout / Process.stderr entries
    capPc,          \* position of the captureOutput worker of a stream
    capLine,        \* the entry that worker is handling
    subPc,          \* position of the StreamProcessLogs call of a subscriber
    existing,       \* existingLogs of that call
    histIdx,        \* entries of existingLogs the history goroutine sent
    chanBuf,        \* buffer of the subscriber's channel
    recv,           \* entries the subscriber's consumer has received
    logsCall,       \* a GetProcessLogs call: position, id, entries read
    closerPc,       \* position of the closer goroutine of a subscriber
    chanClosed,     \* the subscriber's channel is closed
    sawClose,       \* the consumer has read end-of-stream from it
    panicked,       \* a goroutine has panicked: the server is gone
    summary,        \* what the last ToSummaryJSON returned
    httpReq,        \* the last request served by the mux and its answer
    sideEffects,    \* routes whose handler has run a command or touched a file
    rsPc,           \* position of the runStreamingHandler of a command
    rsEvents,       \* the events that handler and its goroutines wrote to w
    runCall         \* the /run request being served: position, what the
                    \* command writes, what was read, the response

ctlVars == <<targetPort, reqPc, reqKind, reqPort, reqResp, reqHist, lastOp>>
lnVars == <<mainPc, proxyListener, lnListener, stopChan, wg, startPc,
            acceptPc, acceptConn>>
lnNoWg == <<mainPc, proxyListener, lnListener, stopChan, startPc, acceptPc,
            acceptConn>>
connData == <<connTarget, connReads, connDials, upAddr, connBytes, connOpen,
              upOpen, copier>>
connVars == <<connPc, connData>>
proxyVars == <<ctlVars, lnVars, connVars>>
procVars == <<procs, nextId, now, status, endTime, exitSet, exitCode, child,
              waitStatus, procMu, watchPc, done, killPc, killRes, view,
              observers, killOk, startProcPc, pid, callerView, listView,
              lookup, lbMax, lbEntries, lbHist, lbSnap, lbSnapAt, lbPrev,
              lbPrevAt, written,
              pipe, ring, capPc, capLine, subPc, existing, histIdx, chanBuf,
              recv, logsCall, closerPc, chanClosed, sawClose, panicked,
              summary, httpReq, sideEffects, rsPc, rsEvents, runCall>>
coreVars == <<procs, nextId, now, status, endTime, exitSet, exitCode, child,
              waitStatus, procMu, watchPc, done, killPc, killRes, view>>
ringVars == <<lbMax, lbEntries, lbHist, lbSnap, lbSnapAt, lbPrev, lbPrevAt>>
capVars == <<written, pipe, ring, capPc, capLine>>
chanVars == <<subPc, existing, histIdx, chanBuf, recv>>
closeVars == <<closerPc, chanClosed, sawClose, panicked>>
logVars == <<capVars, chanVars, logsCall, closeVars>>
subVars == <<observers, ringVars, logVars>>
callVars == <<startProcPc, pid, callerView, listView, lookup, summary>>
apiVars == <<killOk, callVars>>
rsVars == <<rsPc, rsEvents, runCall>>
httpVars == <<httpReq, sideEffects, rsVars>>
vars == <<proxyVars, procVars>>

----------------------------------------------------------------------------
\* HTTP responses of the proxy controller routes

NoResp ==
    [code |-> 0, success |-> FALSE, msg |-> "", port |-> "", current_port |-> ""]
BadRequest(m) ==
    [code |-> 400, success |-> FALSE, msg |-> m, port |-> "", current_port |-> ""]
Conflict(cur) ==
    [code |-> 409, success |-> FALSE, msg |-> "Port already bound",
     port |-> "", current_port |-> cur]
BindOK(p) ==
    [code |-> 200, success |-> TRUE, msg |-> "Port binding configured",
     port |-> p, current_port |-> ""]
UnbindOK ==
    [code |-> 200, success |-> TRUE, msg |-> "Port binding removed",
     port |-> "", current_port |-> ""]

\* Request bodies of /bind_port: undecodable JSON, or a decoded port string.
BindBodies ==
    {[valid |-> FALSE, port |-> ""]} \cup
    {[valid |-> TRUE, port |-> p] : p \in Ports \cup {""}}

NoHist == [seen |-> "", clean |-> FALSE]

\* Wait statuses: a normal exit with a code, or death by a signal.
Exited(code) == [exited |-> TRUE, code |-> code]
Signaled == [exited |-> FALSE, code |-> 0]
NoView == [status |-> "none", end_time |-> FALSE, exit_code |-> FALSE]

\* A lookup by id: the operation, the id, whether GetProcess found it.
NoLookup == [op |-> "none", id |-> 0, found |-> FALSE]
Looked(op, id, found) == [op |-> op, id |-> id, found |-> found]

\* The secret the server was started with (SANDBOX_SECRET).
SandboxSecret == "s3cret"

\* The routes of the mux with their handlers; /health is the one route that
\* is not wrapped by authMiddleware.
Handler ==
    [r \in {"/health", "/run", "/write_file", "/read_file", "/delete_file",
            "/delete_dir", "/make_dir", "/list_dir", "/bind_port",
            "/unbind_port"} |->
        CASE r = "/health" -> "healthHandler"
          [] r = "/run" -> "runHandler"
          [] r = "/write_file" -> "writeFileHandler"
          [] r = "/read_file" -> "readFileHandler"
          [] r = "/delete_file" -> "deleteFileHandler"
          [] r = "/delete_dir" -> "deleteDirHandler"
          [] r = "/make_dir" -> "makeDirHandler"
          [] r = "/list_dir" -> "listDirHandler"
          [] r = "/bind_port" -> "bindPortHandler"
          [] r = "/unbind_port" -> "unbindPortHandler"]

Routes == DOMAIN Handler

\* Request paths: the routes and a path the mux does not know.
Paths == Routes \cup {"/nope"}

\* Values of the Authorization header of a request ("" = no header).
AuthHeaders ==
    {"", "Bearer " \o SandboxSecret, "Bearer wrong", "Bearer ",
     "bearer " \o SandboxSecret, SandboxSecret,
     "Bearer " \o SandboxSecret \o " "}

NoRequest == [path |-> "", auth |-> "", code |-> 0, handler |-> "none"]

\* The command line every StartProcess of the model is given.
Command == "echo test"

\* No ToSummaryJSON result yet.
NoSummary == [id |-> 0, json |-> [id |-> 0]]

\* A log entry: the stream and the line (the n-th the child wrote to it).
Entry(s, n) == [stream |-> s, data |-> n]
\* An entry on a subscriber's channel, with the sender that put it there:
\* the history goroutine or a capture worker.
Sent(e, via) == [stream |-> e.stream, data |-> e.data, via |-> via]

NoEntry == Entry("", 0)
NoLogsCall == [pc |-> "idle", id |-> 0, logs |-> <<>>]

\* No /run request yet. plan: the lines the command writes to each stream
\* before it exits; out, err: outBytes and errBytes; code: RunResponse.Code.
NoRunCall ==
    [pc |-> "idle", plan |-> [s \in Streams |-> 0], out |-> <<>>,
     err |-> <<>>, code |-> 0]

\* What a KillProcess call returned: nil, or one of its errors.
NoKill == [kind |-> "none", status |-> ""]
KillOK == [kind |-> "ok", status |-> ""]
NotFound == [kind |-> "not_found", status |-> ""]
NotRunning(st) == [kind |-> "not_running", status |-> st]
OsError == [kind |-> "os_error", status |-> ""]
NoCopier == [d \in Dirs |-> "none"]

----------------------------------------------------------------------------
\* TCPProxy: the guarded target cell

GetTargetPort == targetPort

SetTargetPort(port) == targetPort' = port

\* A ClearTargetPort that forgets the assignment.
ClearTargetPortNoop == targetPort' = targetPort

ClearTargetPort == targetPort' = ""

----------------------------------------------------------------------------
InitWith(maxEntries) ==
    /\ targetPort = ""
    /\ reqPc = [r \in Reqs |-> "idle"]
    /\ reqKind = [r \in Reqs |-> "none"]
    /\ reqPort = [r \in Reqs |-> ""]
    /\ reqResp = [r \in Reqs |-> NoResp]
    /\ reqHist = [r \in Reqs |-> NoHist]
    /\ lastOp = "none"
    /\ mainPc = "serving"
    /\ proxyListener = FALSE
    /\ lnListener = "nil"
    /\ stopChan = FALSE
    /\ wg = 0
    /\ startPc = "init"
    /\ acceptPc = "notstarted"
    /\ acceptConn = 0
    /\ connPc = [c \in Conns |-> "none"]
    /\ connTarget = [c \in Conns |-> ""]
    /\ connReads = [c \in Conns |-> 0]
    /\ connDials = [c \in Conns |-> 0]
    /\ upAddr = [c \in Conns |-> ""]
    /\ connBytes = [c \in Conns |-> 0]
    /\ connOpen = [c \in Conns |-> FALSE]
    /\ upOpen = [c \in Conns |-> FALSE]
    /\ copier = [c \in Conns |-> NoCopier]
    /\ procs = {}
    /\ nextId = 1
    /\ now = 1
    /\ status = [p \in Ids |-> "none"]
    /\ endTime = [p \in Ids |-> 0]
    /\ exitSet = [p \in Ids |-> FALSE]
    /\ exitCode = [p \in Ids |-> 0]
    /\ child = [p \in Ids |-> "none"]
    /\ waitStatus = [p \in Ids |-> Exited(0)]
    /\ procMu = [p \in Ids |-> "free"]
    /\ watchPc = [p \in Ids |-> "none"]
    /\ done = [p \in Ids |-> FALSE]
    /\ killPc = [p \in Ids |-> "idle"]
    /\ killRes = [p \in Ids |-> NoKill]
    /\ killOk = [p \in Ids |-> FALSE]
    /\ view = [p \in Ids |-> NoView]
    /\ observers = [p \in Ids |-> 0]
    /\ startProcPc = [p \in Ids |-> "none"]
    /\ pid = [p \in Ids |-> 0]
    /\ callerView = [p \in Ids |-> "none"]
    /\ listView = {}
    /\ lookup = NoLookup
    /\ lbMax = maxEntries
    /\ lbEntries = <<>>
    /\ lbHist = <<>>
    /\ lbSnap = <<>>
    /\ lbSnapAt = 0
    /\ lbPrev = <<>>
    /\ lbPrevAt = 0
    /\ written = [p \in Ids |-> [s \in Streams |-> 0]]
    /\ pipe = [p \in Ids |-> [s \in Streams |-> <<>>]]
    /\ ring = [p \in Ids |-> [s \in Streams |-> <<>>]]
    /\ capPc = [p \in Ids |-> [s \in Streams |-> "none"]]
    /\ capLine = [p \in Ids |-> [s \in Streams |-> NoEntry]]
    /\ subPc = [p \in Ids |-> [k \in Subs |-> "none"]]
    /\ existing = [p \in Ids |-> [k \in Subs |-> <<>>]]
    /\ histIdx = [p \in Ids |-> [k \in Subs |-> 0]]
    /\ chanBuf = [p \in Ids |-> [k \in Subs |-> <<>>]]
    /\ recv = [p \in Ids |-> [k \in Subs |-> <<>>]]
    /\ logsCall = NoLogsCall
    /\ closerPc = [p \in Ids |-> [k \in Subs |-> "none"]]
    /\ chanClosed = [p \in Ids |-> [k \in Subs |-> FALSE]]
    /\ sawClose = [p \in Ids |-> [k \in Subs |-> FALSE]]
    /\ panicked = FALSE
    /\ summary = NoSummary
    /\ httpReq = NoRequest
    /\ sideEffects = {}
    /\ rsPc = [p \in Ids |-> "idle"]
    /\ rsEvents = [p \in Ids |-> <<>>]
    /\ runCall = NoRunCall

Init == InitWith(MaxCap)

----------------------------------------------------------------------------
\* /bind_port and /unbind_port handlers

\* The request started: history of what held at that moment.
StartHist == [seen |-> targetPort, clean |-> targetPort = ""]

\* An unbind completed: requests in flight are no longer "without an unbind
\* in between".
Unclean(r) ==
    [x \in Reqs |-> IF x = r THEN StartHist
                    ELSE [reqHist[x] EXCEPT !.clean = FALSE]]

\* bindPortHandler: decode the body and validate the port.
BindStart(r, body) ==
    /\ mainPc = "serving"
    /\ reqPc[r] = "idle"
    /\ reqKind' = [reqKind EXCEPT ![r] = "bind"]
    /\ reqHist' = [reqHist EXCEPT ![r] = StartHist]
    /\ IF ~body.valid
       THEN /\ reqResp' = [reqResp EXCEPT ![r] = BadRequest("Invalid request")]
            /\ reqPc' = [reqPc EXCEPT ![r] = "done"]
            /\ UNCHANGED reqPort
       ELSE IF body.port = ""
       THEN /\ reqResp' = [reqResp EXCEPT ![r] = BadRequest("Port is required")]
            /\ reqPc' = [reqPc EXCEPT ![r] = "done"]
            /\ UNCHANGED reqPort
       ELSE /\ reqPort' = [reqPort EXCEPT ![r] = body.port]
            /\ reqPc' = [reqPc EXCEPT ![r] = "validated"]
            /\ UNCHANGED reqResp
    /\ UNCHANGED <<targetPort, lastOp, lnVars, connVars>>
    /\ UNCHANGED procVars

\* A bindPortHandler without the "already bound" check.
BindCheckNoConflict(r) ==
    /\ mainPc # "exited"
    /\ reqPc[r] = "validated"
    /\ reqPc' = [reqPc EXCEPT ![r] = "checked"]
    /\ UNCHANGED <<targetPort, reqKind, reqPort, reqResp, reqHist, lastOp,
                   lnVars, connVars>>
    /\ UNCHANGED procVars

\* bindPortHandler: currentPort := GetTargetPort(); 409 when it is set.
BindCheck(r) ==
    /\ mainPc # "exited"
    /\ reqPc[r] = "validated"
    /\ LET currentPort == GetTargetPort IN
       IF currentPort # ""
       THEN /\ reqResp' = [reqResp EXCEPT ![r] = Conflict(currentPort)]
            /\ reqPc' = [reqPc EXCEPT ![r] = "done"]
       ELSE /\ reqPc' = [reqPc EXCEPT ![r] = "checked"]
            /\ UNCHANGED reqResp
    /\ UNCHANGED <<targetPort, reqKind, reqPort, reqHist, lastOp, lnVars,
                   connVars>>
    /\ UNCHANGED procVars

\* bindPortHandler: SetTargetPort(req.Port) and the success response.
BindSet(r) ==
    /\ mainPc # "exited"
    /\ reqPc[r] = "checked"
    /\ SetTargetPort(reqPort[r])
    /\ reqResp' = [reqResp EXCEPT ![r] = BindOK(reqPort[r])]
    /\ reqPc' = [reqPc EXCEPT ![r] = "done"]
    /\ UNCHANGED <<reqKind, reqPort, reqHist, lastOp, lnVars, connVars>>
    /\ UNCHANGED procVars

\* unbindPortHandler: ClearTargetPort() and the success response.
Unbind(r) ==
    /\ mainPc = "serving"
    /\ reqPc[r] = "idle"
    /\ ClearTargetPort
    /\ reqKind' = [reqKind EXCEPT ![r] = "unbind"]
    /\ reqHist' = Unclean(r)
    /\ reqResp' = [reqResp EXCEPT ![r] = UnbindOK]
    /\ reqPc' = [reqPc EXCEPT ![r] = "done"]
    /\ UNCHANGED <<reqPort, lastOp, lnVars, connVars>>
    /\ UNCHANGED procVars

\* The response was delivered; the goroutine serves the next request.
ReqReturn(r) ==
    /\ mainPc # "exited"
    /\ reqPc[r] = "done"
    /\ reqPc' = [reqPc EXCEPT ![r] = "idle"]
    /\ reqKind' = [reqKind EXCEPT ![r] = "none"]
    /\ reqPort' = [reqPort EXCEPT ![r] = ""]
    /\ reqResp' = [reqResp EXCEPT ![r] = NoResp]
    /\ reqHist' = [reqHist EXCEPT ![r] = NoHist]
    /\ lastOp' = reqKind[r]
    /\ UNCHANGED <<targetPort, lnVars, connVars>>
    /\ UNCHANGED procVars

----------------------------------------------------------------------------
\* The mux and the bearer check in front of the handlers

\* An authMiddleware that accepts every request that has the header.
AuthorizedAnyHeader(header) == header # ""

\* authMiddleware: the header must be "Bearer " + s.sandboxSecret.
Authorized(header) == header = "Bearer " \o SandboxSecret

Answer(path, header, code, handler) ==
    [path |-> path, auth |-> header, code |-> code, handler |-> handler]

\* One request through mux.ServeHTTP: the mux answers 404 for an unknown
\* path; authMiddleware answers 401 and returns; otherwise the handler of
\* the route runs (a handler that decodes a body answers 400 for a bad one).
ServeHTTP(path, header, body) ==
    /\ mainPc = "serving"
    /\ IF path \notin Routes
       THEN /\ httpReq' = Answer(path, header, 404, "none")
            /\ UNCHANGED <<targetPort, sideEffects>>
       ELSE IF path # "/health" /\ ~Authorized(header)
       THEN /\ httpReq' = Answer(path, header, 401, "none")
            /\ UNCHANGED <<targetPort, sideEffects>>
       ELSE IF path = "/health"
       THEN /\ httpReq' = Answer(path, header, 200, Handler[path])
            /\ UNCHANGED <<targetPort, sideEffects>>
       ELSE IF path = "/unbind_port"
       THEN /\ ClearTargetPort
            /\ httpReq' = Answer(path, header, 200, Handler[path])
            /\ UNCHANGED sideEffects
       ELSE IF ~body.valid \/ (path = "/bind_port" /\ body.port = "")
       THEN /\ httpReq' = Answer(path, header, 400, Handler[path])
            /\ UNCHANGED <<targetPort, sideEffects>>
       ELSE IF path = "/bind_port"
       THEN /\ IF GetTargetPort # ""
               THEN /\ httpReq' = Answer(path, header, 409, Handler[path])
                    /\ UNCHANGED targetPort
               ELSE /\ SetTargetPort(body.port)
                    /\ httpReq' = Answer(path, header, 200, Handler[path])
            /\ UNCHANGED sideEffects
       ELSE /\ sideEffects' = sideEffects \cup {path}
            /\ httpReq' = Answer(path, header, 200, Handler[path])
            /\ UNCHANGED targetPort
    /\ UNCHANGED <<reqPc, reqKind, reqPort, reqResp, reqHist, lastOp, lnVars,
                   connVars>>
    /\ UNCHANGED <<coreVars, apiVars, subVars, rsVars>>

AuthNext ==
    \E path \in Paths, header \in AuthHeaders, body \in BindBodies :
        ServeHTTP(path, header, body)

AuthSpec == Init /\ [][AuthNext]_vars

----------------------------------------------------------------------------
\* Control plane alone: any number of handlers in parallel.
Next ==
    \/ \E r \in Reqs, body \in BindBodies : BindStart(r, body)
    \/ \E r \in Reqs : BindCheck(r)
    \/ \E r \in Reqs : BindSet(r)
    \/ \E r \in Reqs : Unbind(r)
    \/ \E r \in Reqs : ReqReturn(r)

Spec == Init /\ [][Next]_vars

----------------------------------------------------------------------------
\* main(): shutdown, and TCPListener.Stop called through StopTCPProxy

\* main: the quit signal arrived; httpServer.Shutdown stops new requests.
MainSignal ==
    /\ mainPc = "serving"
    /\ mainPc' = "shutdown"
    /\ UNCHANGED <<ctlVars, proxyListener, lnListener, stopChan, wg, startPc,
                   acceptPc, acceptConn, connVars>>
    /\ UNCHANGED procVars

\* StopTCPProxy: GetListener(); Stop: close(l.stopChan).
StopBegin ==
    /\ mainPc = "shutdown"
    /\ IF proxyListener
       THEN stopChan' = TRUE /\ mainPc' = "stop_close"
       ELSE mainPc' = "nostop" /\ UNCHANGED stopChan
    /\ UNCHANGED <<ctlVars, proxyListener, lnListener, wg, startPc, acceptPc,
                   acceptConn, connVars>>
    /\ UNCHANGED procVars

\* Stop: under l.mu, close the listener when it is set.
StopClose ==
    /\ mainPc = "stop_close"
    /\ lnListener' = IF lnListener # "nil" THEN "closed" ELSE lnListener
    /\ mainPc' = "stop_wait"
    /\ UNCHANGED <<ctlVars, proxyListener, stopChan, wg, startPc, acceptPc,
                   acceptConn, connVars>>
    /\ UNCHANGED procVars

\* l.wg.Wait() returns once the counter is zero.
WgWaitReturns == wg = 0

\* Stop: l.wg.Wait(), then Stop and StopTCPProxy return.
StopWait ==
    /\ mainPc = "stop_wait"
    /\ WgWaitReturns
    /\ mainPc' = "stopped"
    /\ UNCHANGED <<ctlVars, proxyListener, lnListener, stopChan, wg, startPc,
                   acceptPc, acceptConn, connVars>>
    /\ UNCHANGED procVars

----------------------------------------------------------------------------
\* StartTCPProxy and TCPListener.Start

\* StartTCPProxy: NewTCPListener and SetListener.
ProxyNew ==
    /\ startPc = "init"
    /\ proxyListener' = TRUE
    /\ startPc' = "registered"
    /\ UNCHANGED <<ctlVars, mainPc, lnListener, stopChan, wg, acceptPc,
                   acceptConn, connVars>>
    /\ UNCHANGED procVars

\* TCPListener.Start: net.Listen; on success l.listener is set and the
\* accept loop goroutine is started, on failure main exits (log.Fatalf).
ListenerStart(ok) ==
    /\ startPc = "registered"
    /\ IF ok
       THEN /\ lnListener' = "open"
            /\ acceptPc' = "check"
            /\ startPc' = "started"
            /\ UNCHANGED mainPc
       ELSE /\ startPc' = "failed"
            /\ mainPc' = "exited"
            /\ UNCHANGED <<lnListener, acceptPc>>
    /\ UNCHANGED <<ctlVars, proxyListener, stopChan, wg, acceptConn,
                   connVars>>
    /\ UNCHANGED procVars

----------------------------------------------------------------------------
\* TCPListener.acceptLoop

\* select on stopChan at the top of the loop.
AcceptCheck ==
    /\ acceptPc = "check"
    /\ acceptPc' = IF stopChan THEN "exited" ELSE "accept"
    /\ UNCHANGED <<ctlVars, mainPc, proxyListener, lnListener, stopChan, wg,
                   startPc, acceptConn, connVars>>
    /\ UNCHANGED procVars

\* Accept returns a pending client connection.
AcceptConn(c) ==
    /\ acceptPc = "accept"
    /\ lnListener = "open"
    /\ connPc[c] = "pending"
    /\ acceptPc' = "spawn"
    /\ acceptConn' = c
    /\ connPc' = [connPc EXCEPT ![c] = "accepted"]
    /\ UNCHANGED <<ctlVars, mainPc, proxyListener, lnListener, stopChan, wg,
                   startPc, connData>>
    /\ UNCHANGED procVars

\* An accept loop that ends on any error of Accept.
AcceptErrorExits(transient) ==
    /\ acceptPc = "accept"
    /\ lnListener = "closed" \/ transient
    /\ acceptPc' = "exited"
    /\ UNCHANGED <<ctlVars, mainPc, proxyListener, lnListener, stopChan, wg,
                   startPc, acceptConn, connVars>>
    /\ UNCHANGED procVars

\* Accept returns an error (the listener was closed, or a transient error):
\* the loop ends when stopChan is closed and goes on otherwise.
AcceptError(transient) ==
    /\ acceptPc = "accept"
    /\ lnListener = "closed" \/ transient
    /\ acceptPc' = IF stopChan THEN "exited" ELSE "check"
    /\ UNCHANGED <<ctlVars, mainPc, proxyListener, lnListener, stopChan, wg,
                   startPc, acceptConn, connVars>>
    /\ UNCHANGED procVars

\* l.wg.Add(1) and the go statement that runs the handler.
AcceptSpawn ==
    /\ acceptPc = "spawn"
    /\ wg' = wg + 1
    /\ connPc' = [connPc EXCEPT ![acceptConn] = "started"]
    /\ acceptConn' = 0
    /\ acceptPc' = "check"
    /\ UNCHANGED <<ctlVars, mainPc, proxyListener, lnListener, stopChan,
                   startPc, connData>>
    /\ UNCHANGED procVars

----------------------------------------------------------------------------
\* Clients and the connection handler of StartTCPProxy

\* A client connects to the listening proxy port.
ClientConnect(c) ==
    /\ connPc[c] = "none"
    /\ lnListener = "open"
    /\ connPc' = [connPc EXCEPT ![c] = "pending"]
    /\ connOpen' = [connOpen EXCEPT ![c] = TRUE]
    /\ UNCHANGED <<ctlVars, lnVars, connTarget, connReads, connDials, upAddr,
                   connBytes, upOpen, copier>>
    /\ UNCHANGED procVars

\* The handler returns: deferred conn.Close() (and targetConn.Close()) and
\* l.wg.Done().
HandlerExit(c) ==
    /\ connPc' = [connPc EXCEPT ![c] = "returned"]
    /\ connOpen' = [connOpen EXCEPT ![c] = FALSE]
    /\ upOpen' = [upOpen EXCEPT ![c] = FALSE]
    /\ wg' = wg - 1

\* A handler that misses the early return of the unbound branch.
HandlerReadNoIdle(c) ==
    /\ connPc[c] = "started"
    /\ connTarget' = [connTarget EXCEPT ![c] = GetTargetPort]
    /\ connPc' = [connPc EXCEPT ![c] = "dialing"]
    /\ UNCHANGED <<ctlVars, lnVars, connReads, connDials, upAddr, connBytes,
                   connOpen, upOpen, copier>>
    /\ UNCHANGED procVars

\* targetPort := s.tcpProxy.GetTargetPort(), and the branch on "".
HandlerRead(c) ==
    /\ connPc[c] = "started"
    /\ connTarget' = [connTarget EXCEPT ![c] = GetTargetPort]
    /\ connPc' = [connPc EXCEPT ![c] =
                     IF GetTargetPort = "" THEN "idle_read" ELSE "dialing"]
    /\ UNCHANGED <<ctlVars, lnVars, connReads, connDials, upAddr, connBytes,
                   connOpen, upOpen, copier>>
    /\ UNCHANGED procVars

\* No target: one read under a 100 ms deadline (it returns with a byte, EOF
\* or a timeout; the byte is discarded), then return.
HandlerIdle(c) ==
    /\ connPc[c] = "idle_read"
    /\ connReads' = [connReads EXCEPT ![c] = @ + 1]
    /\ HandlerExit(c)
    /\ UNCHANGED <<ctlVars, lnNoWg, connTarget, connDials, upAddr, connBytes, copier>>
    /\ UNCHANGED procVars

\* A handler that drops the binding when the upstream cannot be reached.
HandlerDialUnbinds(c, ok) ==
    /\ connPc[c] = "dialing"
    /\ connDials' = [connDials EXCEPT ![c] = @ + 1]
    /\ upAddr' = [upAddr EXCEPT ![c] = "localhost:" \o connTarget[c]]
    /\ IF ok
       THEN /\ connPc' = [connPc EXCEPT ![c] = "copying"]
            /\ upOpen' = [upOpen EXCEPT ![c] = TRUE]
            /\ copier' = [copier EXCEPT ![c] = [d \in Dirs |-> "running"]]
            /\ UNCHANGED <<wg, connOpen, targetPort>>
       ELSE /\ HandlerExit(c)
            /\ ClearTargetPort
            /\ UNCHANGED copier
    /\ UNCHANGED <<reqPc, reqKind, reqPort, reqResp, reqHist, lastOp, lnNoWg,
                   connTarget, connReads, connBytes>>
    /\ UNCHANGED procVars

\* A handler that reads the target again when it dials.
HandlerDialRereads(c, ok) ==
    /\ connPc[c] = "dialing"
    /\ connDials' = [connDials EXCEPT ![c] = @ + 1]
    /\ upAddr' = [upAddr EXCEPT ![c] = "localhost:" \o GetTargetPort]
    /\ IF ok
       THEN /\ connPc' = [connPc EXCEPT ![c] = "copying"]
            /\ upOpen' = [upOpen EXCEPT ![c] = TRUE]
            /\ copier' = [copier EXCEPT ![c] = [d \in Dirs |-> "running"]]
            /\ UNCHANGED <<wg, connOpen>>
       ELSE /\ HandlerExit(c)
            /\ UNCHANGED copier
    /\ UNCHANGED <<ctlVars, lnNoWg, connTarget, connReads, connBytes>>
    /\ UNCHANGED procVars

\* DialTCP("localhost:" + targetPort): on failure log and return, on success
\* start the two copiers.
HandlerDial(c, ok) ==
    /\ connPc[c] = "dialing"
    /\ connDials' = [connDials EXCEPT ![c] = @ + 1]
    /\ upAddr' = [upAddr EXCEPT ![c] = "localhost:" \o connTarget[c]]
    /\ IF ok
       THEN /\ connPc' = [connPc EXCEPT ![c] = "copying"]
            /\ upOpen' = [upOpen EXCEPT ![c] = TRUE]
            /\ copier' = [copier EXCEPT ![c] = [d \in Dirs |-> "running"]]
            /\ UNCHANGED <<wg, connOpen>>
       ELSE /\ HandlerExit(c)
            /\ UNCHANGED copier
    /\ UNCHANGED <<ctlVars, lnNoWg, connTarget, connReads, connBytes>>
    /\ UNCHANGED procVars

\* One io.Copy goroutine moves a byte between the two open connections.
CopyByte(c, d) ==
    /\ copier[c][d] = "running"
    /\ connOpen[c] /\ upOpen[c]
    /\ connBytes[c] < MaxBytes
    /\ connBytes' = [connBytes EXCEPT ![c] = @ + 1]
    /\ UNCHANGED <<ctlVars, lnVars, connPc, connTarget, connReads, connDials, upAddr,
                   connOpen, upOpen, copier>>
    /\ UNCHANGED procVars

\* A copier whose done channel has no buffer: its send completes only
\* while the handler is still at its receive.
CopyEndUnbuffered(c, d) ==
    /\ copier[c][d] = "running"
    /\ connPc[c] = "copying"
    /\ \A e \in Dirs : copier[c][e] # "finished"
    /\ copier' = [copier EXCEPT ![c][d] = "finished"]
    /\ UNCHANGED <<ctlVars, lnVars, connPc, connTarget, connReads, connDials,
                   upAddr, connBytes, connOpen, upOpen>>
    /\ UNCHANGED procVars

\* io.Copy returns (EOF, an error, or a closed connection) and the goroutine
\* sends on the buffered done channel.
CopyEnd(c, d) ==
    /\ copier[c][d] = "running"
    /\ copier' = [copier EXCEPT ![c][d] = "finished"]
    /\ UNCHANGED <<ctlVars, lnVars, connPc, connTarget, connReads, connDials, upAddr,
                   connBytes, connOpen, upOpen>>
    /\ UNCHANGED procVars

\* <-done: either direction finished; deferred Close of both connections.
HandlerReturn(c) ==
    /\ connPc[c] = "copying"
    /\ \E d \in Dirs : copier[c][d] = "finished"
    /\ HandlerExit(c)
    /\ UNCHANGED <<ctlVars, lnNoWg, connTarget, connReads, connDials, upAddr,
                   connBytes, copier>>
    /\ UNCHANGED procVars

\* The connection is over; the model reuses its slot for a new client.
ConnReset(c) ==
    /\ connPc[c] = "returned"
    /\ \A d \in Dirs : copier[c][d] # "running"
    /\ connPc' = [connPc EXCEPT ![c] = "none"]
    /\ connTarget' = [connTarget EXCEPT ![c] = ""]
    /\ connReads' = [connReads EXCEPT ![c] = 0]
    /\ connDials' = [connDials EXCEPT ![c] = 0]
    /\ upAddr' = [upAddr EXCEPT ![c] = ""]
    /\ connBytes' = [connBytes EXCEPT ![c] = 0]
    /\ copier' = [copier EXCEPT ![c] = NoCopier]
    /\ UNCHANGED <<ctlVars, lnVars, connOpen, upOpen>>
    /\ UNCHANGED procVars

----------------------------------------------------------------------------
\* The proxy as a whole, driven by a sequential control-plane client.
ProxyNext ==
    \/ \E r \in SeqReqs, body \in BindBodies : BindStart(r, body)
    \/ \E r \in SeqReqs : BindCheck(r)
    \/ \E r \in SeqReqs : BindSet(r)
    \/ \E r \in SeqReqs : Unbind(r)
    \/ \E r \in SeqReqs : ReqReturn(r)
    \/ MainSignal
    \/ StopBegin
    \/ StopClose
    \/ StopWait
    \/ ProxyNew
    \/ \E ok \in BOOLEAN : ListenerStart(ok)
    \/ AcceptCheck
    \/ \E c \in Conns : AcceptConn(c)
    \/ \E transient \in BOOLEAN : AcceptError(transient)
    \/ AcceptSpawn
    \/ \E c \in Conns : ClientConnect(c)
    \/ \E c \in Conns : HandlerRead(c)
    \/ \E c \in Conns : HandlerIdle(c)
    \/ \E c \in Conns, ok \in BOOLEAN : HandlerDial(c, ok)
    \/ \E c \in Conns, d \in Dirs : CopyByte(c, d)
    \/ \E c \in Conns, d \in Dirs : CopyEnd(c, d)
    \/ \E c \in Conns : HandlerReturn(c)
    \/ \E c \in Conns : ConnReset(c)

ProxySpec == Init /\ [][ProxyNext]_vars

\* The read of the unbound branch carries a deadline, so it returns and the
\* scheduler runs the handler on.
ProxyLiveSpec == ProxySpec /\ \A c \in Conns : WF_vars(HandlerIdle(c))

\* io.Copy on a closed connection returns with an error, so a copier whose
\* connections are closed runs on to its send.
CopyClosed(c, d) == ~connOpen[c] /\ ~upOpen[c] /\ CopyEnd(c, d)

\* The handler's receive from done returns once a copier has sent, and the
\* copiers of a closed connection end.
CopyLiveSpec ==
    /\ ProxySpec
    /\ \A c \in Conns :
          /\ WF_vars(HandlerReturn(c))
          /\ \A d \in Dirs : WF_vars(CopyClosed(c, d))


\* Accept on a closed listener returns an error at once.
AcceptClosed == lnListener = "closed" /\ AcceptError(FALSE)

\* The accept loop goroutine and Stop run on: the select on stopChan, the
\* go statement and the Close of the listener do not wait for anything, and
\* Accept returns when the listener is closed.
AcceptLiveSpec ==
    /\ ProxySpec
    /\ WF_vars(AcceptCheck)
    /\ WF_vars(AcceptSpawn)
    /\ WF_vars(AcceptClosed)
    /\ WF_vars(StopClose)


----------------------------------------------------------------------------
\* The process supervisor

\* LogBuffer.Append without the eviction.
AppendNoTrim(entries, entry, maxEntries) == Append(entries, entry)

\* LogBuffer.Append that evicts the newest entries.
AppendKeepFirst(entries, entry, maxEntries) ==
    LET all == Append(entries, entry) IN
    IF Len(all) > maxEntries THEN SubSeq(all, 1, maxEntries) ELSE all

\* A buffer that puts a new entry in front of the older ones.
AppendFront(entries, entry, maxEntries) ==
    LET all == <<entry>> \o entries
    IN  IF Len(all) > maxEntries THEN SubSeq(all, 1, maxEntries) ELSE all

\* LogBuffer.Append: the entry is appended and only the last maxEntries
\* entries are kept.
LbAppend(entries, entry, maxEntries) ==
    LET all == Append(entries, entry) IN
    IF Len(all) > maxEntries
    THEN SubSeq(all, Len(all) - maxEntries + 1, Len(all))
    ELSE all

\* LogBuffer.GetAll: a copy of the entries.
LbGetAll(entries) == [i \in 1..Len(entries) |-> entries[i]]

\* ProcessState.ExitCode(): the exit code, or -1 for a death by signal.
ExitCode(ws) == IF ws.exited THEN ws.code ELSE -1

\* cmd.Wait() returns an error unless the child exited with code 0.
WaitErr(ws) == ~(ws.exited /\ ws.code = 0)

\* A classification that never reports Killed.
ClassifyNoKilled(ws) == IF WaitErr(ws) THEN "failed" ELSE "completed"

\* waitForCompletion: the status chosen from err and ExitCode().
Classify(ws) ==
    IF WaitErr(ws)
    THEN IF ExitCode(ws) = -1 THEN "killed" ELSE "failed"
    ELSE "completed"

\* A reader that does not wait for the write lock.
RLockNever(p) == TRUE

\* Process.mu.RLock() can be taken: no writer holds the lock.
RLockFree(p) == procMu[p] = "free"

\* A StartProcess that puts the record in the map before it knows that the
\* command has started.
StartSpawnLeaks(p, ok) ==
    /\ p = nextId
    /\ status[p] = "none"
    /\ procs' = procs \cup {p}
    /\ IF ok
       THEN /\ status' = [status EXCEPT ![p] = "running"]
            /\ child' = [child EXCEPT ![p] = "alive"]
            /\ pid' = [pid EXCEPT ![p] = p]
            /\ startProcPc' = [startProcPc EXCEPT ![p] = "spawned"]
            /\ nextId' = nextId + 1
       ELSE /\ startProcPc' = [startProcPc EXCEPT ![p] = "failed"]
            /\ UNCHANGED <<status, child, pid, nextId>>
    /\ UNCHANGED <<now, endTime, exitSet, exitCode, waitStatus,
                   procMu, watchPc, done, killPc, killRes, view>>
    /\ UNCHANGED <<killOk, callerView, listView, summary, lookup, subVars, proxyVars, httpVars>>

\* StartProcess: fresh id (uuid.New()), the Process record (Status
\* Running), the pipes, cmd.Start() and the PID; a failure of a pipe or of
\* cmd.Start() returns nil and an error ("failed") and keeps nothing.
StartSpawn(p, ok) ==
    /\ p = nextId
    /\ status[p] = "none"
    /\ IF ok
       THEN /\ status' = [status EXCEPT ![p] = "running"]
            /\ child' = [child EXCEPT ![p] = "alive"]
            /\ pid' = [pid EXCEPT ![p] = p]
            /\ startProcPc' = [startProcPc EXCEPT ![p] = "spawned"]
            /\ nextId' = nextId + 1
       ELSE /\ startProcPc' = [startProcPc EXCEPT ![p] = "failed"]
            /\ UNCHANGED <<status, child, pid, nextId>>
    /\ UNCHANGED <<procs, now, endTime, exitSet, exitCode, waitStatus,
                   procMu, watchPc, done, killPc, killRes, view>>
    /\ UNCHANGED <<killOk, callerView, listView, summary, lookup, subVars, proxyVars, httpVars>>

\* A StartProcess that does not put the process in the map.
StartRegisterSkip(p) ==
    /\ startProcPc[p] = "spawned"
    /\ startProcPc' = [startProcPc EXCEPT ![p] = "registered"]
    /\ UNCHANGED <<procs, nextId, now, status, endTime, exitSet, exitCode,
                   child, waitStatus, procMu, watchPc, done, killPc, killRes,
                   view>>
    /\ UNCHANGED <<killOk, pid, callerView, listView, summary, lookup, subVars,
                   proxyVars, httpVars>>

\* StartProcess: pm.processes[id] = process under pm.mu.
StartRegister(p) ==
    /\ startProcPc[p] = "spawned"
    /\ startProcPc' = [startProcPc EXCEPT ![p] = "registered"]
    /\ procs' = procs \cup {p}
    /\ UNCHANGED <<nextId, now, status, endTime, exitSet, exitCode, child,
                   waitStatus, procMu, watchPc, done, killPc, killRes, view>>
    /\ UNCHANGED <<killOk, pid, callerView, listView, summary, lookup, subVars,
                   proxyVars, httpVars>>

\* StartProcess: the capture workers and the completion watcher are
\* started, the process is returned to the caller.
StartReturn(p) ==
    /\ startProcPc[p] = "registered"
    /\ startProcPc' = [startProcPc EXCEPT ![p] = "returned"]
    /\ capPc' = [capPc EXCEPT ![p] = [s \in Streams |-> "scan"]]
    /\ watchPc' = [watchPc EXCEPT ![p] = "wait"]
    /\ UNCHANGED <<procs, nextId, now, status, endTime, exitSet, exitCode,
                   child, waitStatus, procMu, done, killPc, killRes, view>>
    /\ UNCHANGED <<killOk, pid, callerView, listView, summary, lookup, observers,
                   ringVars, written, pipe, ring, capLine, chanVars, logsCall, closeVars,
                   proxyVars, httpVars>>

\* The caller of StartProcess reads process.Status from the record it was
\* given (no lock is taken).
CallerRead(p) ==
    /\ startProcPc[p] = "returned"
    /\ callerView' = [callerView EXCEPT ![p] = status[p]]
    /\ UNCHANGED <<coreVars, subVars, proxyVars, httpVars>>
    /\ UNCHANGED <<killOk, startProcPc, pid, listView, summary, lookup>>

\* A ListProcesses that leaves out the processes that have ended.
ListProcessesRunning ==
    /\ listView' = {p \in procs : status[p] = "running"}
    /\ UNCHANGED <<coreVars, subVars, proxyVars, httpVars>>
    /\ UNCHANGED <<killOk, startProcPc, pid, callerView, lookup, summary>>

\* ListProcesses: every value of the map, under pm.mu.
ListProcesses ==
    /\ listView' = procs
    /\ UNCHANGED <<coreVars, subVars, proxyVars, httpVars>>
    /\ UNCHANGED <<killOk, startProcPc, pid, callerView, lookup, summary>>

\* A GetProcess that makes an entry for an id it does not find.
GetProcessUpsert(p) ==
    /\ lookup' = Looked("get", p, p \in procs)
    /\ procs' = procs \cup {p}
    /\ UNCHANGED <<nextId, now, status, endTime, exitSet, exitCode, child,
                   waitStatus, procMu, watchPc, done, killPc, killRes, view>>
    /\ UNCHANGED <<subVars, proxyVars, httpVars>>
    /\ UNCHANGED <<killOk, startProcPc, pid, callerView, listView, summary>>

\* GetProcess: the map lookup under pm.mu.
GetProcess(p) ==
    /\ lookup' = Looked("get", p, p \in procs)
    /\ UNCHANGED <<coreVars, subVars, proxyVars, httpVars>>
    /\ UNCHANGED <<killOk, startProcPc, pid, callerView, listView, summary>>

\* Process.ToSummaryJSON: the map built under the read lock.
ToSummaryJSON(p) ==
    /\ p \in procs
    /\ RLockFree(p)
    /\ summary' = [id |-> p,
                   json |-> [id |-> p, pid |-> pid[p], status |-> status[p]]]
    /\ UNCHANGED <<coreVars, subVars, proxyVars, httpVars>>
    /\ UNCHANGED <<killOk, startProcPc, pid, callerView, listView, lookup>>

\* The child calls exit(code).
ChildExit(p, code) ==
    /\ child[p] = "alive"
    /\ child' = [child EXCEPT ![p] = "dead"]
    /\ waitStatus' = [waitStatus EXCEPT ![p] = Exited(code)]
    /\ UNCHANGED <<procs, nextId, now, status, endTime, exitSet, exitCode,
                   procMu, watchPc, done, killPc, killRes, view>>
    /\ UNCHANGED <<apiVars, subVars, proxyVars, httpVars>>

\* The child dies from a signal that does not come from KillProcess (the
\* kernel, the command itself, another process of the sandbox).
ChildSignaled(p) ==
    /\ child[p] = "alive"
    /\ child' = [child EXCEPT ![p] = "dead"]
    /\ waitStatus' = [waitStatus EXCEPT ![p] = Signaled]
    /\ UNCHANGED <<procs, nextId, now, status, endTime, exitSet, exitCode,
                   procMu, watchPc, done, killPc, killRes, view>>
    /\ UNCHANGED <<apiVars, subVars, proxyVars, httpVars>>

\* waitForCompletion: process.cmd.Wait() returns once the child is dead.
WatchWait(p) ==
    /\ watchPc[p] = "wait"
    /\ child[p] = "dead"
    /\ child' = [child EXCEPT ![p] = "reaped"]
    /\ watchPc' = [watchPc EXCEPT ![p] = "lock"]
    /\ UNCHANGED <<procs, nextId, now, status, endTime, exitSet, exitCode,
                   waitStatus, procMu, done, killPc, killRes, view>>
    /\ UNCHANGED <<apiVars, subVars, proxyVars, httpVars>>

\* waitForCompletion: process.mu.Lock().
WatchLock(p) ==
    /\ watchPc[p] = "lock"
    /\ procMu[p] = "free"
    /\ procMu' = [procMu EXCEPT ![p] = "watcher"]
    /\ watchPc' = [watchPc EXCEPT ![p] = "set_end"]
    /\ UNCHANGED <<procs, nextId, now, status, endTime, exitSet, exitCode,
                   child, waitStatus, done, killPc, killRes, view>>
    /\ UNCHANGED <<apiVars, subVars, proxyVars, httpVars>>

\* waitForCompletion: now := time.Now(), a reading t not before the last
\* one; process.EndTime = &now.
WatchSetEnd(p, t) ==
    /\ watchPc[p] = "set_end"
    /\ t >= now
    /\ now' = t
    /\ endTime' = [endTime EXCEPT ![p] = t]
    /\ watchPc' = [watchPc EXCEPT ![p] = "set_status"]
    /\ UNCHANGED <<procs, nextId, status, exitSet, exitCode, child,
                   waitStatus, procMu, done, killPc, killRes, view>>
    /\ UNCHANGED <<apiVars, subVars, proxyVars, httpVars>>

\* waitForCompletion: process.Status = Killed | Failed | Completed.
WatchSetStatus(p) ==
    /\ watchPc[p] = "set_status"
    /\ status' = [status EXCEPT ![p] = Classify(waitStatus[p])]
    /\ watchPc' = [watchPc EXCEPT ![p] = "set_exit"]
    /\ UNCHANGED <<procs, nextId, now, endTime, exitSet, exitCode, child,
                   waitStatus, procMu, done, killPc, killRes, view>>
    /\ UNCHANGED <<apiVars, subVars, proxyVars, httpVars>>

\* waitForCompletion: process.ExitCode = &exitCode.
WatchSetExit(p) ==
    /\ watchPc[p] = "set_exit"
    /\ exitCode' = [exitCode EXCEPT ![p] = ExitCode(waitStatus[p])]
    /\ exitSet' = [exitSet EXCEPT ![p] = TRUE]
    /\ watchPc' = [watchPc EXCEPT ![p] = "close_done"]
    /\ UNCHANGED <<procs, nextId, now, status, endTime, child, waitStatus,
                   procMu, done, killPc, killRes, view>>
    /\ UNCHANGED <<apiVars, subVars, proxyVars, httpVars>>

\* A waitForCompletion that forgets close(process.done).
WatchCloseSkip(p) ==
    /\ watchPc[p] = "close_done"
    /\ watchPc' = [watchPc EXCEPT ![p] = "unlock"]
    /\ UNCHANGED <<procs, nextId, now, status, endTime, exitSet, exitCode,
                   child, waitStatus, procMu, done, killPc, killRes, view>>
    /\ UNCHANGED <<apiVars, subVars, proxyVars, httpVars>>

\* waitForCompletion: close(process.done).
WatchClose(p) ==
    /\ watchPc[p] = "close_done"
    /\ done' = [done EXCEPT ![p] = TRUE]
    /\ watchPc' = [watchPc EXCEPT ![p] = "unlock"]
    /\ UNCHANGED <<procs, nextId, now, status, endTime, exitSet, exitCode,
                   child, waitStatus, procMu, killPc, killRes, view>>
    /\ UNCHANGED <<apiVars, subVars, proxyVars, httpVars>>

\* waitForCompletion: the deferred process.mu.Unlock().
WatchUnlock(p) ==
    /\ watchPc[p] = "unlock"
    /\ procMu' = [procMu EXCEPT ![p] = "free"]
    /\ watchPc' = [watchPc EXCEPT ![p] = "finished"]
    /\ UNCHANGED <<procs, nextId, now, status, endTime, exitSet, exitCode,
                   child, waitStatus, done, killPc, killRes, view>>
    /\ UNCHANGED <<apiVars, subVars, proxyVars, httpVars>>

\* A KillProcess that does not look at the status.
KillReadAnyStatus(p) ==
    /\ killPc[p] = "idle"
    /\ IF p \notin procs
       THEN /\ killRes' = [killRes EXCEPT ![p] = NotFound]
            /\ UNCHANGED killPc
       ELSE /\ procMu[p] = "free"
            /\ killPc' = [killPc EXCEPT ![p] = "signal"]
            /\ UNCHANGED killRes
    /\ UNCHANGED <<procs, nextId, now, status, endTime, exitSet, exitCode,
                   child, waitStatus, procMu, watchPc, done, view>>
    /\ UNCHANGED <<apiVars, subVars, proxyVars, httpVars>>

\* KillProcess: GetProcess (an error for an id that is not in the map),
\* then cmd and status read under the read lock; an error naming the
\* status when it is not Running.
KillRead(p) ==
    /\ killPc[p] = "idle"
    /\ IF p \notin procs
       THEN /\ killRes' = [killRes EXCEPT ![p] = NotFound]
            /\ UNCHANGED killPc
       ELSE /\ RLockFree(p)
            /\ IF status[p] # "running"
               THEN /\ killRes' = [killRes EXCEPT ![p] = NotRunning(status[p])]
                    /\ UNCHANGED killPc
               ELSE /\ killPc' = [killPc EXCEPT ![p] = "signal"]
                    /\ UNCHANGED killRes
    /\ UNCHANGED <<procs, nextId, now, status, endTime, exitSet, exitCode,
                   child, waitStatus, procMu, watchPc, done, view>>
    /\ UNCHANGED <<apiVars, subVars, proxyVars, httpVars>>

\* A KillProcess that records the new status itself.
KillSignalSetsStatus(p) ==
    /\ killPc[p] = "signal"
    /\ killPc' = [killPc EXCEPT ![p] = "idle"]
    /\ status' = [status EXCEPT ![p] = "killed"]
    /\ IF child[p] = "alive"
       THEN /\ child' = [child EXCEPT ![p] = "dead"]
            /\ waitStatus' = [waitStatus EXCEPT ![p] = Signaled]
       ELSE UNCHANGED <<child, waitStatus>>
    /\ killRes' = [killRes EXCEPT ![p] =
                      IF child[p] = "reaped" THEN OsError ELSE KillOK]
    /\ killOk' = [killOk EXCEPT ![p] = @ \/ child[p] # "reaped"]
    /\ UNCHANGED <<procs, nextId, now, endTime, exitSet, exitCode, procMu,
                   watchPc, done, view>>
    /\ UNCHANGED <<callVars, subVars, proxyVars, httpVars>>

\* KillProcess: cmd.Process.Kill(). SIGKILL ends a live child; a child that
\* is dead but not yet reaped is left as it is (no error); after Wait has
\* reaped it, Kill returns an error.
KillSignal(p) ==
    /\ killPc[p] = "signal"
    /\ killPc' = [killPc EXCEPT ![p] = "idle"]
    /\ IF child[p] = "alive"
       THEN /\ child' = [child EXCEPT ![p] = "dead"]
            /\ waitStatus' = [waitStatus EXCEPT ![p] = Signaled]
       ELSE UNCHANGED <<child, waitStatus>>
    /\ killRes' = [killRes EXCEPT ![p] =
                      IF child[p] = "reaped" THEN OsError ELSE KillOK]
    /\ killOk' = [killOk EXCEPT ![p] = @ \/ child[p] # "reaped"]
    /\ UNCHANGED <<procs, nextId, now, status, endTime, exitSet, exitCode,
                   procMu, watchPc, done, view>>
    /\ UNCHANGED <<callVars, subVars, proxyVars, httpVars>>

\* Process.ToJSON (reached through GetProcess or ListProcesses): the fields
\* read under the read lock.
ToJSON(p) ==
    /\ p \in procs
    /\ RLockFree(p)
    /\ view' = [view EXCEPT ![p] = [status |-> status[p],
                                    end_time |-> endTime[p] # 0,
                                    exit_code |-> exitSet[p]]]
    /\ UNCHANGED <<procs, nextId, now, status, endTime, exitSet, exitCode,
                   child, waitStatus, procMu, watchPc, done, killPc, killRes>>
    /\ UNCHANGED <<apiVars, subVars, proxyVars, httpVars>>

\* The child writes its next line to one of its output streams.
ChildWrite(p, s) ==
    /\ child[p] = "alive"
    /\ written[p][s] < MaxLines
    /\ written' = [written EXCEPT ![p][s] = @ + 1]
    /\ pipe' = [pipe EXCEPT ![p][s] = Append(@, Entry(s, written[p][s] + 1))]
    /\ UNCHANGED <<ring, capPc, capLine, chanVars, logsCall, closeVars>>
    /\ UNCHANGED <<coreVars, apiVars, observers, ringVars, proxyVars, httpVars>>

\* captureOutput: scanner.Scan(). It yields the next line of the pipe; it
\* ends the loop at end of file (the child is gone and the pipe is empty)
\* or on a read error (cmd.Wait() has closed the pipe, whatever is in it).
CaptureScan(p, s, line) ==
    /\ capPc[p][s] = "scan"
    /\ IF line
       THEN /\ pipe[p][s] # <<>>
            /\ capLine' = [capLine EXCEPT ![p][s] = Head(pipe[p][s])]
            /\ pipe' = [pipe EXCEPT ![p][s] = Tail(@)]
            /\ capPc' = [capPc EXCEPT ![p][s] = "append"]
       ELSE /\ \/ child[p] = "reaped"
               \/ child[p] = "dead" /\ pipe[p][s] = <<>>
            /\ capPc' = [capPc EXCEPT ![p][s] = "eof"]
            /\ UNCHANGED <<capLine, pipe>>
    /\ UNCHANGED <<written, ring, chanVars, logsCall, closeVars>>
    /\ UNCHANGED <<coreVars, apiVars, observers, ringVars, proxyVars, httpVars>>

\* captureOutput: process.stdout.Append(entry) / process.stderr.Append(entry).
CaptureAppend(p, s) ==
    /\ capPc[p][s] = "append"
    /\ ring' = [ring EXCEPT ![p][s] = LbAppend(@, capLine[p][s], MaxCap)]
    /\ capPc' = [capPc EXCEPT ![p][s] = "notify"]
    /\ UNCHANGED <<written, pipe, capLine, chanVars, logsCall, closeVars>>
    /\ UNCHANGED <<coreVars, apiVars, observers, ringVars, proxyVars, httpVars>>

\* The first channel of process.observers that is closed (0: none is).
FirstClosed(p) ==
    LET closed == {k \in 1..observers[p] : chanClosed[p][k]}
    IN  IF closed = {} THEN 0
        ELSE CHOOSE k \in closed : \A j \in closed : k <= j

\* captureOutput: under logsMu.RLock, a send without blocking to every
\* channel of process.observers in turn; a full channel misses the entry,
\* and the send to a closed channel panics.
CaptureNotify(p, s) ==
    /\ capPc[p][s] = "notify"
    /\ chanBuf' = [chanBuf EXCEPT ![p] =
                      [k \in Subs |->
                         IF /\ k <= observers[p]
                            /\ FirstClosed(p) = 0 \/ k < FirstClosed(p)
                            /\ Len(chanBuf[p][k]) < ChanCap
                         THEN Append(chanBuf[p][k],
                                     Sent(capLine[p][s], "live"))
                         ELSE chanBuf[p][k]]]
    /\ IF FirstClosed(p) = 0
       THEN /\ capPc' = [capPc EXCEPT ![p][s] = "scan"]
            /\ UNCHANGED panicked
       ELSE /\ capPc' = [capPc EXCEPT ![p][s] = "panic"]
            /\ panicked' = TRUE
    /\ UNCHANGED <<written, pipe, ring, capLine, subPc, existing, histIdx,
                   recv, logsCall, closerPc, chanClosed, sawClose>>
    /\ UNCHANGED <<coreVars, apiVars, observers, ringVars, proxyVars, httpVars>>

\* StreamProcessLogs: GetProcess (an error for an id that is not in the
\* map), then a new channel appended to process.observers under logsMu.
StreamProcessLogs(p) ==
    /\ IF p \notin procs
       THEN /\ lookup' = Looked("stream", p, FALSE)
            /\ UNCHANGED <<observers, subPc>>
       ELSE /\ observers[p] < MaxObservers
            /\ observers' = [observers EXCEPT ![p] = @ + 1]
            /\ subPc' = [subPc EXCEPT ![p][observers[p] + 1] = "registered"]
            /\ UNCHANGED lookup
    /\ UNCHANGED <<capVars, existing, histIdx, chanBuf, recv, logsCall, closeVars>>
    /\ UNCHANGED <<coreVars, killOk, startProcPc, pid, callerView, listView, summary,
                   ringVars, proxyVars, httpVars>>

\* StreamProcessLogs: existingLogs, first part: process.stdout.GetAll().
StreamSnapOut(p, k) ==
    /\ subPc[p][k] = "registered"
    /\ existing' = [existing EXCEPT ![p][k] = LbGetAll(ring[p]["stdout"])]
    /\ subPc' = [subPc EXCEPT ![p][k] = "snap_out"]
    /\ UNCHANGED <<capVars, histIdx, chanBuf, recv, logsCall, closeVars>>
    /\ UNCHANGED <<coreVars, apiVars, observers, ringVars, proxyVars, httpVars>>

\* StreamProcessLogs: existingLogs, second part: process.stderr.GetAll() is
\* put after the stdout entries; then the history goroutine and the closer
\* are started and the channel is returned.
StreamSnapErr(p, k) ==
    /\ subPc[p][k] = "snap_out"
    /\ existing' = [existing EXCEPT ![p][k] = @ \o LbGetAll(ring[p]["stderr"])]
    /\ subPc' = [subPc EXCEPT ![p][k] = "streaming"]
    /\ closerPc' = [closerPc EXCEPT ![p][k] = "wait"]
    /\ UNCHANGED <<capVars, histIdx, chanBuf, recv, logsCall, chanClosed,
                   sawClose, panicked>>
    /\ UNCHANGED <<coreVars, apiVars, observers, ringVars, proxyVars, httpVars>>

\* The history goroutine: logChan <- entry for the next entry of
\* existingLogs; the send waits while the channel is full, and it panics
\* when the channel is closed (also when it is closed during the wait).
HistorySend(p, k) ==
    /\ subPc[p][k] = "streaming"
    /\ histIdx[p][k] < Len(existing[p][k])
    /\ IF chanClosed[p][k]
       THEN /\ panicked' = TRUE
            /\ UNCHANGED <<chanBuf, histIdx>>
       ELSE /\ Len(chanBuf[p][k]) < ChanCap
            /\ chanBuf' = [chanBuf EXCEPT ![p][k] =
                              Append(@, Sent(existing[p][k][histIdx[p][k] + 1],
                                             "history"))]
            /\ histIdx' = [histIdx EXCEPT ![p][k] = @ + 1]
            /\ UNCHANGED panicked
    /\ UNCHANGED <<capVars, subPc, existing, recv, logsCall, closerPc,
                   chanClosed, sawClose>>
    /\ UNCHANGED <<coreVars, apiVars, observers, ringVars, proxyVars, httpVars>>

\* The consumer of the returned channel receives the next entry; a closed
\* channel still hands out what is in its buffer.
ConsumerRecv(p, k) ==
    /\ subPc[p][k] = "streaming"
    /\ chanBuf[p][k] # <<>>
    /\ recv' = [recv EXCEPT ![p][k] = Append(@, Head(chanBuf[p][k]))]
    /\ chanBuf' = [chanBuf EXCEPT ![p][k] = Tail(@)]
    /\ UNCHANGED <<capVars, subPc, existing, histIdx, logsCall, closeVars>>
    /\ UNCHANGED <<coreVars, apiVars, observers, ringVars, proxyVars, httpVars>>

\* The consumer receives from the closed and empty channel: end of stream.
ConsumerEof(p, k) ==
    /\ subPc[p][k] = "streaming"
    /\ chanClosed[p][k]
    /\ chanBuf[p][k] = <<>>
    /\ ~sawClose[p][k]
    /\ sawClose' = [sawClose EXCEPT ![p][k] = TRUE]
    /\ UNCHANGED <<capVars, chanVars, logsCall, closerPc, chanClosed,
                   panicked>>
    /\ UNCHANGED <<coreVars, apiVars, observers, ringVars, proxyVars, httpVars>>

\* The closer goroutine: <-process.done returns once done is closed.
CloserWait(p, k) ==
    /\ closerPc[p][k] = "wait"
    /\ done[p]
    /\ closerPc' = [closerPc EXCEPT ![p][k] = "sleep"]
    /\ UNCHANGED <<capVars, chanVars, logsCall, chanClosed, sawClose,
                   panicked>>
    /\ UNCHANGED <<coreVars, apiVars, observers, ringVars, proxyVars, httpVars>>

\* The closer goroutine: the 100 ms sleep is over, close(logChan). The
\* channel stays in process.observers.
CloserClose(p, k) ==
    /\ closerPc[p][k] = "sleep"
    /\ chanClosed' = [chanClosed EXCEPT ![p][k] = TRUE]
    /\ closerPc' = [closerPc EXCEPT ![p][k] = "finished"]
    /\ UNCHANGED <<capVars, chanVars, logsCall, sawClose, panicked>>
    /\ UNCHANGED <<coreVars, apiVars, observers, ringVars, proxyVars, httpVars>>

\* GetProcessLogs: GetProcess (an error for an id that is not in the map),
\* then process.stdout.GetAll().
GetProcessLogs(p) ==
    /\ logsCall.pc = "idle"
    /\ lookup' = Looked("logs", p, p \in procs)
    /\ IF p \in procs
       THEN logsCall' = [pc |-> "stderr", id |-> p,
                         logs |-> LbGetAll(ring[p]["stdout"])]
       ELSE UNCHANGED logsCall
    /\ UNCHANGED <<capVars, chanVars, closeVars>>
    /\ UNCHANGED <<coreVars, killOk, startProcPc, pid, callerView, listView, summary,
                   observers, ringVars, proxyVars, httpVars>>

\* GetProcessLogs: process.stderr.GetAll(), put after the stdout entries,
\* and the return of the merged slice.
GetLogsErr ==
    /\ logsCall.pc = "stderr"
    /\ logsCall' = [logsCall EXCEPT
                       !.pc = "idle",
                       !.logs = @ \o LbGetAll(ring[logsCall.id]["stderr"])]
    /\ UNCHANGED <<capVars, chanVars, closeVars>>
    /\ UNCHANGED <<coreVars, apiVars, observers, ringVars, proxyVars, httpVars>>

ProcNext ==
    \/ \E p \in ProcIds, ok \in BOOLEAN : StartSpawn(p, ok)
    \/ \E p \in ProcIds : StartRegister(p)
    \/ \E p \in ProcIds : StartReturn(p)
    \/ \E p \in ProcIds, code \in ExitCodes : ChildExit(p, code)
    \/ \E p \in ProcIds : ChildSignaled(p)
    \/ \E p \in ProcIds : WatchWait(p)
    \/ \E p \in ProcIds : WatchLock(p)
    \/ \E p \in ProcIds, t \in Clock : WatchSetEnd(p, t)
    \/ \E p \in ProcIds : WatchSetStatus(p)
    \/ \E p \in ProcIds : WatchSetExit(p)
    \/ \E p \in ProcIds : WatchClose(p)
    \/ \E p \in ProcIds : WatchUnlock(p)
    \/ \E p \in ProcIds : KillRead(p)
    \/ \E p \in ProcIds : KillSignal(p)
    \/ \E p \in ProcIds : ToJSON(p)
    \/ \E p \in procs : StreamProcessLogs(p)

ProcSpec == Init /\ [][ProcNext]_vars

\* A buffer whose GetAll hands out the live entries instead of a copy: an
\* Append shows in the slice returned earlier.
RingAppendShared(d) ==
    /\ Len(lbHist) < MaxAppends
    /\ lbEntries' = LbAppend(lbEntries, d, lbMax)
    /\ lbHist' = Append(lbHist, d)
    /\ lbSnap' = IF lbSnapAt > 0 THEN lbEntries' ELSE lbSnap
    /\ UNCHANGED <<lbMax, lbSnapAt, lbPrev, lbPrevAt>>
    /\ UNCHANGED <<coreVars, apiVars, observers, logVars, proxyVars, httpVars>>

\* lb.Append(entry) on the stand-alone buffer.
RingAppend(d) ==
    /\ Len(lbHist) < MaxAppends
    /\ lbEntries' = LbAppend(lbEntries, d, lbMax)
    /\ lbHist' = Append(lbHist, d)
    /\ UNCHANGED <<lbMax, lbSnap, lbSnapAt, lbPrev, lbPrevAt>>
    /\ UNCHANGED <<coreVars, apiVars, observers, logVars, proxyVars, httpVars>>

\* lb.GetAll() on the stand-alone buffer; the caller still holds the slice
\* that its GetAll before returned.
RingGetAll ==
    /\ lbSnap' = LbGetAll(lbEntries)
    /\ lbSnapAt' = Len(lbHist)
    /\ lbPrev' = lbSnap
    /\ lbPrevAt' = lbSnapAt
    /\ UNCHANGED <<lbMax, lbEntries, lbHist>>
    /\ UNCHANGED <<coreVars, apiVars, observers, logVars, proxyVars, httpVars>>

\* A log buffer of any capacity from 1 to MaxCap, appended to and read.
RingInit == \E c \in 1..MaxCap : InitWith(c)

RingNext ==
    \/ \E d \in Data : RingAppend(d)
    \/ RingGetAll

RingSpec == RingInit /\ [][RingNext]_vars

\* The output of one process: the child writes lines and exits, the capture
\* workers store and fan them out, subscribers are added and served.
LogNext ==
    \/ \E p \in LogIds, ok \in BOOLEAN : StartSpawn(p, ok)
    \/ \E p \in LogIds : StartRegister(p)
    \/ \E p \in LogIds : StartReturn(p)
    \/ \E p \in LogIds, s \in Streams : ChildWrite(p, s)
    \/ \E p \in LogIds : ChildExit(p, 0)
    \/ \E p \in LogIds, s \in Streams, line \in BOOLEAN : CaptureScan(p, s, line)
    \/ \E p \in LogIds, s \in Streams : CaptureAppend(p, s)
    \/ \E p \in LogIds, s \in Streams : CaptureNotify(p, s)
    \/ \E p \in procs : StreamProcessLogs(p)
    \/ \E p \in LogIds, k \in Subs : StreamSnapOut(p, k)
    \/ \E p \in LogIds, k \in Subs : StreamSnapErr(p, k)
    \/ \E p \in LogIds, k \in Subs : HistorySend(p, k)
    \/ \E p \in LogIds, k \in Subs : ConsumerRecv(p, k)

LogSpec == Init /\ [][LogNext]_vars

\* A process from its start to its end with its capture workers, its
\* completion watcher, and subscribers with their history goroutine, closer
\* and consumer. A panic of any goroutine ends the server: nothing runs
\* after it (Live: the processes of a server that is up).
Live == IF panicked THEN {} ELSE LogIds

StreamNext ==
    \/ \E p \in Live, ok \in BOOLEAN : StartSpawn(p, ok)
    \/ \E p \in Live : StartRegister(p)
    \/ \E p \in Live : StartReturn(p)
    \/ \E p \in Live, s \in Streams : ChildWrite(p, s)
    \/ \E p \in Live : ChildExit(p, 0)
    \/ \E p \in Live : WatchWait(p)
    \/ \E p \in Live : WatchLock(p)
    \/ \E p \in Live : WatchSetEnd(p, now)
    \/ \E p \in Live : WatchSetStatus(p)
    \/ \E p \in Live : WatchSetExit(p)
    \/ \E p \in Live : WatchClose(p)
    \/ \E p \in Live : WatchUnlock(p)
    \/ \E p \in Live, s \in Streams, line \in BOOLEAN :
          CaptureScan(p, s, line)
    \/ \E p \in Live, s \in Streams : CaptureAppend(p, s)
    \/ \E p \in Live, s \in Streams : CaptureNotify(p, s)
    \/ \E p \in procs \cap Live : StreamProcessLogs(p)
    \/ \E p \in Live, k \in Subs : StreamSnapOut(p, k)
    \/ \E p \in Live, k \in Subs : StreamSnapErr(p, k)
    \/ \E p \in Live, k \in Subs : HistorySend(p, k)
    \/ \E p \in Live, k \in Subs : ConsumerRecv(p, k)
    \/ \E p \in Live, k \in Subs : ConsumerEof(p, k)
    \/ \E p \in Live, k \in Subs : CloserWait(p, k)
    \/ \E p \in Live, k \in Subs : CloserClose(p, k)

StreamSpec == Init /\ [][StreamNext]_vars

\* The same, with subscribers that come late: StreamProcessLogs is called
\* for processes that have ended only.
Ended == {p \in procs : done[p]}

LateNext ==
    \/ \E p \in Live, ok \in BOOLEAN : StartSpawn(p, ok)
    \/ \E p \in Live : StartRegister(p)
    \/ \E p \in Live : StartReturn(p)
    \/ \E p \in Live, s \in Streams : ChildWrite(p, s)
    \/ \E p \in Live : ChildExit(p, 0)
    \/ \E p \in Live : WatchWait(p)
    \/ \E p \in Live : WatchLock(p)
    \/ \E p \in Live : WatchSetEnd(p, now)
    \/ \E p \in Live : WatchSetStatus(p)
    \/ \E p \in Live : WatchSetExit(p)
    \/ \E p \in Live : WatchClose(p)
    \/ \E p \in Live : WatchUnlock(p)
    \/ \E p \in Live, s \in Streams, line \in BOOLEAN :
          CaptureScan(p, s, line)
    \/ \E p \in Live, s \in Streams : CaptureAppend(p, s)
    \/ \E p \in Live, s \in Streams : CaptureNotify(p, s)
    \/ \E p \in Ended \cap Live : StreamProcessLogs(p)
    \/ \E p \in Live, k \in Subs : StreamSnapOut(p, k)
    \/ \E p \in Live, k \in Subs : StreamSnapErr(p, k)
    \/ \E p \in Live, k \in Subs : HistorySend(p, k)
    \/ \E p \in Live, k \in Subs : ConsumerRecv(p, k)
    \/ \E p \in Live, k \in Subs : ConsumerEof(p, k)
    \/ \E p \in Live, k \in Subs : CloserWait(p, k)
    \/ \E p \in Live, k \in Subs : CloserClose(p, k)

LateSpec == Init /\ [][LateNext]_vars

\* Lookups by id, of ids that are in the map and of ids that are not; the
\* command of the one started process writes to its stdout only.
LookupNext ==
    \/ \E p \in LogIds, ok \in BOOLEAN : StartSpawn(p, ok)
    \/ \E p \in LogIds : StartRegister(p)
    \/ \E p \in LogIds : StartReturn(p)
    \/ \E p \in LogIds : ChildWrite(p, "stdout")
    \/ \E p \in LogIds, s \in Streams : CaptureScan(p, s, TRUE)
    \/ \E p \in LogIds, s \in Streams : CaptureAppend(p, s)
    \/ \E p \in LogIds, s \in Streams : CaptureNotify(p, s)
    \/ \E p \in Ids : GetProcess(p)
    \/ \E p \in Ids : GetProcessLogs(p)
    \/ GetLogsErr
    \/ \E p \in Ids : StreamProcessLogs(p)
    \/ \E p \in LogIds, k \in Subs : StreamSnapOut(p, k)
    \/ \E p \in LogIds, k \in Subs : StreamSnapErr(p, k)

LookupSpec == Init /\ [][LookupNext]_vars

\* The supervisor map: several StartProcess calls in flight, their callers,
\* the lookups and the listing; each command exits with code 0 and the
\* watcher records its end.
MapNext ==
    \/ \E p \in Ids, ok \in BOOLEAN : StartSpawn(p, ok)
    \/ \E p \in Ids : StartRegister(p)
    \/ \E p \in Ids : StartReturn(p)
    \/ \E p \in Ids : CallerRead(p)
    \/ ListProcesses
    \/ \E p \in Ids : GetProcess(p)
    \/ \E p \in Ids : ChildExit(p, 0)
    \/ \E p \in Ids : WatchWait(p)
    \/ \E p \in Ids : WatchLock(p)
    \/ \E p \in Ids : WatchSetEnd(p, now)
    \/ \E p \in Ids : WatchSetStatus(p)
    \/ \E p \in Ids : WatchSetExit(p)
    \/ \E p \in Ids : WatchClose(p)
    \/ \E p \in Ids : WatchUnlock(p)

MapSpec == Init /\ [][MapNext]_vars

\* An event of the /run_streaming response.
OutputEvent(e) == [event |-> "output", stream |-> e.stream, data |-> e.data]

CompleteEvent(ws) ==
    [event |-> "complete", code |-> ExitCode(ws), error |-> WaitErr(ws)]

\* runStreamingHandler: the request is decoded, the pipes are made,
\* cmd.Start() succeeds and the two scanner goroutines are started.
RunStart(p) ==
    /\ rsPc[p] = "idle"
    /\ child[p] = "none"
    /\ child' = [child EXCEPT ![p] = "alive"]
    /\ capPc' = [capPc EXCEPT ![p] = [s \in Streams |-> "scan"]]
    /\ rsPc' = [rsPc EXCEPT ![p] = "wait"]
    /\ UNCHANGED <<procs, nextId, now, status, endTime, exitSet, exitCode,
                   waitStatus, procMu, watchPc, done, killPc, killRes, view>>
    /\ UNCHANGED <<written, pipe, ring, capLine, chanVars, logsCall, closeVars>>
    /\ UNCHANGED <<apiVars, observers, ringVars, proxyVars, httpReq,
                   sideEffects, rsEvents, runCall>>

\* A scanner goroutine of the handler: scanner.Scan() on its pipe.
RunScan(p, s, line) ==
    /\ rsPc[p] # "idle"
    /\ CaptureScan(p, s, line)

\* A scanner goroutine of the handler: the output event of the line it
\* holds is written to w and flushed.
RunEmit(p, s) ==
    /\ rsPc[p] # "idle"
    /\ capPc[p][s] = "append"
    /\ rsEvents' = [rsEvents EXCEPT ![p] = Append(@, OutputEvent(capLine[p][s]))]
    /\ capPc' = [capPc EXCEPT ![p][s] = "scan"]
    /\ UNCHANGED <<written, pipe, ring, capLine, chanVars, logsCall, closeVars>>
    /\ UNCHANGED <<coreVars, apiVars, observers, ringVars, proxyVars, httpReq,
                   sideEffects, rsPc, runCall>>

\* runStreamingHandler: cmd.Wait() returns once the child is dead; it has
\* closed the pipes.
RunWait(p) ==
    /\ rsPc[p] = "wait"
    /\ child[p] = "dead"
    /\ child' = [child EXCEPT ![p] = "reaped"]
    /\ rsPc' = [rsPc EXCEPT ![p] = "complete"]
    /\ UNCHANGED <<procs, nextId, now, status, endTime, exitSet, exitCode,
                   waitStatus, procMu, watchPc, done, killPc, killRes, view>>
    /\ UNCHANGED <<apiVars, subVars, proxyVars, httpReq, sideEffects,
                   rsEvents, runCall>>

\* runStreamingHandler: the complete event is written and flushed, and the
\* handler returns.
RunComplete(p) ==
    /\ rsPc[p] = "complete"
    /\ rsEvents' = [rsEvents EXCEPT
                       ![p] = Append(@, CompleteEvent(waitStatus[p]))]
    /\ rsPc' = [rsPc EXCEPT ![p] = "returned"]
    /\ UNCHANGED <<coreVars, apiVars, subVars, proxyVars, httpReq,
                   sideEffects, runCall>>

\* One /run_streaming request: the command, the handler and its two scanner
\* goroutines.
RunStreamNext ==
    \/ \E p \in LogIds : RunStart(p)
    \/ \E p \in LogIds, s \in Streams : ChildWrite(p, s)
    \/ \E p \in LogIds, code \in ExitCodes : ChildExit(p, code)
    \/ \E p \in LogIds : ChildSignaled(p)
    \/ \E p \in LogIds, s \in Streams, line \in BOOLEAN : RunScan(p, s, line)
    \/ \E p \in LogIds, s \in Streams : RunEmit(p, s)
    \/ \E p \in LogIds : RunWait(p)
    \/ \E p \in LogIds : RunComplete(p)

RunStreamSpec == Init /\ [][RunStreamNext]_vars

----------------------------------------------------------------------------
\* runHandler (/run)

\* What a command may write: up to MaxLines lines on each stream.
Plans == [Streams -> 0..MaxLines]

\* runHandler: the request is decoded, the pipes are made and cmd.Start()
\* succeeds; the handler goes on to io.ReadAll(stdout).
RunCmdStart(p, plan) ==
    /\ runCall.pc = "idle"
    /\ child[p] = "none"
    /\ child' = [child EXCEPT ![p] = "alive"]
    /\ runCall' = [runCall EXCEPT !.pc = "read_stdout", !.plan = plan]
    /\ UNCHANGED <<procs, nextId, now, status, endTime, exitSet, exitCode,
                   waitStatus, procMu, watchPc, done, killPc, killRes, view>>
    /\ UNCHANGED <<apiVars, subVars, proxyVars, httpReq, sideEffects, rsPc,
                   rsEvents>>

\* The command writes its next line to one of its streams; the write waits
\* while the pipe is full.
RunChildWrite(p, s) ==
    /\ runCall.pc # "idle"
    /\ child[p] = "alive"
    /\ written[p][s] < runCall.plan[s]
    /\ Len(pipe[p][s]) < PipeCap
    /\ written' = [written EXCEPT ![p][s] = @ + 1]
    /\ pipe' = [pipe EXCEPT ![p][s] = Append(@, Entry(s, written[p][s] + 1))]
    /\ UNCHANGED <<ring, capPc, capLine, chanVars, logsCall, closeVars>>
    /\ UNCHANGED <<coreVars, apiVars, observers, ringVars, proxyVars, httpVars>>

\* The command has written all it had to write and exits; the write ends of
\* its pipes are closed.
RunChildExit(p, code) ==
    /\ runCall.pc # "idle"
    /\ \A s \in Streams : written[p][s] = runCall.plan[s]
    /\ ChildExit(p, code)

\* runHandler: io.ReadAll(stdout), then io.ReadAll(stderr). A read takes
\* what is in the pipe; ReadAll returns at end of file, which comes when the
\* pipe is empty and the command has exited.
RunReadAll(p, s) ==
    /\ runCall.pc = "read_" \o s
    /\ IF pipe[p][s] # <<>>
       THEN /\ pipe' = [pipe EXCEPT ![p][s] = Tail(@)]
            /\ runCall' = IF s = "stdout"
                          THEN [runCall EXCEPT !.out = Append(@, Head(pipe[p][s]))]
                          ELSE [runCall EXCEPT !.err = Append(@, Head(pipe[p][s]))]
       ELSE /\ child[p] = "dead"
            /\ runCall' = [runCall EXCEPT
                              !.pc = IF s = "stdout" THEN "read_stderr" ELSE "wait"]
            /\ UNCHANGED pipe
    /\ UNCHANGED <<written, ring, capPc, capLine, chanVars, logsCall, closeVars>>
    /\ UNCHANGED <<coreVars, apiVars, observers, ringVars, proxyVars, httpReq,
                   sideEffects, rsPc, rsEvents>>

\* runHandler: cmd.Wait() and the RunResponse with stdout, stderr and the
\* exit code.
RunRespond(p) ==
    /\ runCall.pc = "wait"
    /\ child[p] = "dead"
    /\ child' = [child EXCEPT ![p] = "reaped"]
    /\ runCall' = [runCall EXCEPT !.pc = "responded",
                                  !.code = ExitCode(waitStatus[p])]
    /\ UNCHANGED <<procs, nextId, now, status, endTime, exitSet, exitCode,
                   waitStatus, procMu, watchPc, done, killPc, killRes, view>>
    /\ UNCHANGED <<apiVars, subVars, proxyVars, httpReq, sideEffects, rsPc,
                   rsEvents>>

\* One /run request and its command.
RunNext ==
    \/ \E p \in LogIds, plan \in Plans : RunCmdStart(p, plan)
    \/ \E p \in LogIds, s \in Streams : RunChildWrite(p, s)
    \/ \E p \in LogIds, code \in ExitCodes : RunChildExit(p, code)
    \/ \E p \in LogIds, s \in Streams : RunReadAll(p, s)
    \/ \E p \in LogIds : RunRespond(p)

RunSpec == Init /\ [][RunNext]_vars

\* The command runs while it is not waiting on a full pipe, and the handler
\* runs while it is not waiting on an empty one.
RunLiveSpec ==
    /\ RunSpec
    /\ \A p \in LogIds :
          /\ \A s \in Streams : WF_vars(RunChildWrite(p, s))
          /\ \A s \in Streams : WF_vars(RunReadAll(p, s))
          /\ WF_vars(\E code \in ExitCodes : RunChildExit(p, code))
          /\ WF_vars(RunRespond(p))

\* The two views of a process: processes that start, end in each of the ways
\* a child can end, and are shown in full or summarised at any moment.
SummaryNext ==
    \/ \E p \in ProcIds, ok \in BOOLEAN : StartSpawn(p, ok)
    \/ \E p \in ProcIds : StartRegister(p)
    \/ \E p \in ProcIds : StartReturn(p)
    \/ \E p \in ProcIds, code \in ExitCodes : ChildExit(p, code)
    \/ \E p \in ProcIds : ChildSignaled(p)
    \/ \E p \in ProcIds : WatchWait(p)
    \/ \E p \in ProcIds : WatchLock(p)
    \/ \E p \in ProcIds : WatchSetEnd(p, now)
    \/ \E p \in ProcIds : WatchSetStatus(p)
    \/ \E p \in ProcIds : WatchSetExit(p)
    \/ \E p \in ProcIds : WatchClose(p)
    \/ \E p \in ProcIds : WatchUnlock(p)
    \/ \E p \in ProcIds : ToJSON(p)
    \/ \E p \in ProcIds : ToSummaryJSON(p)

SummarySpec == Init /\ [][SummaryNext]_vars

\* The watcher is a goroutine of its own: the scheduler runs each of its
\* steps once the step can be taken.
WatchFair(p) ==
    /\ WF_vars(WatchWait(p))
    /\ WF_vars(WatchLock(p))
    /\ WF_vars(\E t \in Clock : WatchSetEnd(p, t))
    /\ WF_vars(WatchSetStatus(p))
    /\ WF_vars(WatchSetExit(p))
    /\ WF_vars(WatchClose(p))
    /\ WF_vars(WatchUnlock(p))

ProcLiveSpec == ProcSpec /\ \A p \in ProcIds : WatchFair(p)

\* The next step of each goroutine of a process, on a server that is up.
WatcherStep(p) ==
    /\ ~panicked
    /\ \/ WatchWait(p) \/ WatchLock(p) \/ WatchSetEnd(p, now)
       \/ WatchSetStatus(p) \/ WatchSetExit(p) \/ WatchClose(p)
       \/ WatchUnlock(p)

CaptureStep(p, s) ==
    /\ ~panicked
    /\ \/ \E line \in BOOLEAN : CaptureScan(p, s, line)
       \/ CaptureAppend(p, s)
       \/ CaptureNotify(p, s)

SubscribeStep(p, k) == ~panicked /\ (StreamSnapOut(p, k) \/ StreamSnapErr(p, k))

HistoryStep(p, k) == ~panicked /\ HistorySend(p, k)

ConsumerStep(p, k) == ~panicked /\ (ConsumerRecv(p, k) \/ ConsumerEof(p, k))

CloserStep(p, k) == ~panicked /\ (CloserWait(p, k) \/ CloserClose(p, k))

\* Every goroutine is scheduled: a step that stays possible is taken.
StreamFair(p) ==
    /\ WF_vars(WatcherStep(p))
    /\ \A s \in Streams : WF_vars(CaptureStep(p, s))
    /\ \A k \in Subs : /\ WF_vars(SubscribeStep(p, k))
                       /\ WF_vars(HistoryStep(p, k))
                       /\ WF_vars(ConsumerStep(p, k))
                       /\ WF_vars(CloserStep(p, k))

StreamLiveSpec == StreamSpec /\ \A p \in LogIds : StreamFair(p)

----------------------------------------------------------------------------
\* Claims about the proxy controller under concurrent handlers (Spec)

\* Bind requests with a port, started while the proxy was unbound, with no
\* unbind since they started.
Racers ==
    {r \in Reqs : /\ reqKind[r] = "bind"
                  /\ reqPort[r] # ""
                  /\ reqHist[r].clean}

\* C1: of two or more /bind_port requests with different ports that all
\* started while the proxy was unbound, with no unbind in between, exactly
\* one returns success, every other one returns 409, and the target is the
\* port of the one that returned success.
C1_OneBindWins ==
    ( /\ Cardinality(Racers) >= 2
      /\ \A r \in Racers : reqPc[r] = "done"
      /\ \A r1, r2 \in Racers : r1 # r2 => reqPort[r1] # reqPort[r2] )
    => \E w \in Racers :
          /\ reqResp[w] = BindOK(reqPort[w])
          /\ targetPort = reqPort[w]
          /\ \A o \in Racers \ {w} : reqResp[o].code = 409

\* A step of handler r that serves a whole /unbind_port request.
UnbindStep(r) ==
    reqPc[r] = "idle" /\ reqPc'[r] = "done" /\ reqKind'[r] = "unbind"

\* C3: /unbind_port always answers success and leaves the target empty,
\* whatever the target was; on an already empty target (a second unbind in a
\* row) it leaves the state as it was and gives the same response.
C3_UnbindClears ==
    [][\A r \in Reqs :
          UnbindStep(r) =>
             /\ reqResp'[r] = UnbindOK
             /\ targetPort' = ""
             /\ (targetPort = "" => targetPort' = targetPort)]_vars

\* An unbind of a bound target and, right after it, a second unbind.
C3_Witness ==
    \E r1, r2 \in Reqs :
       /\ r1 # r2
       /\ reqPc[r1] = "done" /\ reqKind[r1] = "unbind"
       /\ reqHist[r1].seen \in Ports
       /\ reqPc[r2] = "done" /\ reqKind[r2] = "unbind"
       /\ reqHist[r2].seen = ""
       /\ reqResp[r1] = reqResp[r2]
       /\ targetPort = ""

----------------------------------------------------------------------------
\* Claims about the proxy with a sequential control-plane client (ProxySpec)

\* C2: in a sequential run, /bind_port with port q issued while the target
\* is a port p returns 409 carrying current_port = p and leaves the target
\* equal to p; issued right after an /unbind_port it returns success and the
\* target is q.
C2_SequentialBind ==
    \A r \in SeqReqs :
       (reqPc[r] = "done" /\ reqKind[r] = "bind" /\ reqPort[r] # "") =>
          /\ reqHist[r].seen # "" =>
                /\ reqResp[r] = Conflict(reqHist[r].seen)
                /\ targetPort = reqHist[r].seen
          /\ lastOp = "unbind" =>
                /\ reqResp[r] = BindOK(reqPort[r])
                /\ targetPort = reqPort[r]

\* A bind answered with success right after an unbind that unbound a port.
C2_Witness ==
    \E r \in SeqReqs :
       /\ reqPc[r] = "done" /\ reqKind[r] = "bind"
       /\ lastOp = "unbind"
       /\ reqResp[r] = BindOK(reqPort[r])
       /\ targetPort = reqPort[r]
       /\ targetPort \in Ports

\* The last request that returned is an unbind and no bind succeeded since.
Unbound ==
    /\ lastOp = "unbind"
    /\ \A r \in SeqReqs : ~(reqKind[r] = "bind" /\ reqResp[r].success)

\* C4: after an /unbind_port call has returned, and until a later successful
\* bind, no bytes are copied on any client connection.
C4_NoForwardAfterUnbind ==
    [][Unbound => \A c \in Conns : connBytes'[c] <= connBytes[c]]_vars

\* What C5 says of a handler that read an empty target.
IdleSafe(c) ==
    (connTarget[c] = "" /\ connPc[c] \in {"idle_read", "returned"}) =>
       /\ connDials[c] = 0
       /\ ~upOpen[c]
       /\ copier[c] = NoCopier
       /\ connBytes[c] = 0
       /\ connReads[c] <= 1
       /\ connPc[c] = "returned" => ~connOpen[c]

\* C5: a handler that reads an empty target never dials an upstream and
\* never writes to the client; it performs at most one (deadline-bounded)
\* read, closes the client connection, and always terminates.
C5_IdleHandlerEnds ==
    /\ \A c \in Conns : []IdleSafe(c)
    /\ \A c \in Conns : (connPc[c] = "idle_read") ~> (connPc[c] = "returned")

\* A handler of the unbound branch has returned after its single read.
C5_Witness ==
    \E c \in Conns :
       /\ connPc[c] = "returned" /\ connTarget[c] = ""
       /\ connReads[c] = 1 /\ ~connOpen[c]

\* The step in which DialTCP fails and the handler returns.
DialFailed(c) == connPc[c] = "dialing" /\ connPc'[c] = "returned"

\* C6: when the dial of a non-empty target fails, the handler closes the
\* client connection and returns without copying a byte, and the target
\* port stays as it was.
C6_DialFailure ==
    [][\A c \in Conns :
          DialFailed(c) =>
             /\ connTarget[c] # ""
             /\ ~connOpen'[c] /\ ~upOpen'[c]
             /\ connBytes'[c] = 0
             /\ copier'[c] = NoCopier
             /\ targetPort' = targetPort]_vars

\* A handler returned after a failed dial and the port is still bound.
C6_Witness ==
    \E c \in Conns :
       /\ connPc[c] = "returned" /\ connDials[c] = 1
       /\ copier[c] = NoCopier /\ connBytes[c] = 0 /\ ~connOpen[c]
       /\ connTarget[c] \in Ports
       /\ targetPort = connTarget[c]

HandlerRunning == {"started", "idle_read", "dialing", "copying"}

\* C7: once TCPListener.Stop has returned, every connection handler that was
\* started has returned and none starts afterwards.
C7_StopWaitsForHandlers ==
    mainPc = "stopped" => \A c \in Conns : connPc[c] \notin HandlerRunning

----------------------------------------------------------------------------
\* Claims about the process supervisor (ProcSpec, ProcLiveSpec)

\* C8: a process changes status only from Running to Completed, Failed or
\* Killed, and once a terminal status is visible (the watcher has released
\* the process lock) no step - kill, subscribe, get, list, a later event -
\* changes its status, end_time or exit_code.
Settled(p) == status[p] \in Terminal /\ procMu[p] = "free"

C8_OneTransition ==
    [][\A p \in ProcIds :
         /\ status'[p] # status[p] =>
               \/ status[p] = "none" /\ status'[p] = "running"
               \/ status[p] = "running" /\ status'[p] \in Terminal
         /\ Settled(p) =>
               /\ status'[p] = status[p]
               /\ endTime'[p] = endTime[p]
               /\ exitSet'[p] = exitSet[p]
               /\ exitCode'[p] = exitCode[p]]_vars

\* A kill that read Running lands after the watcher recorded the end.
C8_Witness ==
    \E p \in ProcIds :
        Settled(p) /\ killRes[p] \in {KillOK, OsError} /\ observers[p] > 0

\* C9: whatever a reader sees under the process lock, status is Running
\* exactly when end_time is unset and exactly when exit_code is unset.
Coherent(st, endSet, codeSet) ==
    /\ (st = "running") <=> ~endSet
    /\ (st = "running") <=> ~codeSet

C9_FieldsTogether ==
    \A p \in ProcIds :
        /\ (procMu[p] = "free" /\ status[p] # "none") =>
               Coherent(status[p], endTime[p] # 0, exitSet[p])
        /\ view[p] # NoView =>
               Coherent(view[p].status, view[p].end_time, view[p].exit_code)

\* One reader saw the process running, a later one saw it ended.
C9_Witness ==
    \E p \in ProcIds :
        /\ view[p].status = "running"
        /\ status[p] \in Terminal
        /\ procMu[p] = "free"
        /\ endTime[p] # 0

\* C10: the watcher records Completed exactly for exit code 0, Failed for
\* a normal exit with another code, Killed with exit code -1 for a death
\* by signal; the exit code recorded is the one the OS reported; and once
\* the child is dead the watcher reaches a terminal status.
Classified(p) ==
    LET ws == waitStatus[p] IN
    /\ exitSet[p]
    /\ endTime[p] # 0
    /\ (status[p] = "completed") <=> (ws.exited /\ ws.code = 0)
    /\ (ws.exited /\ ws.code # 0) => status[p] = "failed"
    /\ ws.exited => exitCode[p] = ws.code
    /\ ~ws.exited => status[p] = "killed" /\ exitCode[p] = -1

KillStep(p) == killPc'[p] # killPc[p] \/ killRes'[p] # killRes[p]

Untouched(p) ==
    /\ status'[p] = status[p]
    /\ endTime'[p] = endTime[p]
    /\ exitSet'[p] = exitSet[p]
    /\ exitCode'[p] = exitCode[p]

NoSignal(p) == child'[p] = child[p] /\ waitStatus'[p] = waitStatus[p]

C11_KillContract ==
    [][\A p \in ProcIds :
         KillStep(p) =>
           /\ Untouched(p)
           /\ (killPc[p] = "idle" /\ p \notin procs) =>
                  killRes'[p] = NotFound /\ NoSignal(p) /\ killPc'[p] = "idle"
           /\ (killPc[p] = "idle" /\ p \in procs /\ status[p] # "running") =>
                  /\ killRes'[p] = NotRunning(status[p])
                  /\ NoSignal(p)
                  /\ killPc'[p] = "idle"
           /\ (killPc[p] = "signal" /\ child[p] = "alive") =>
                  /\ child'[p] = "dead"
                  /\ waitStatus'[p] = Signaled
                  /\ killRes'[p] = KillOK]_vars

\* A kill ended the process; the next kill was refused with its status.
C11_Witness ==
    \E p \in ProcIds : killOk[p] /\ killRes[p] = NotRunning("killed")

\* C12: once a kill of a process has returned success, the status of the
\* process eventually is Killed or Failed (watcher scheduled fairly).
C12_KillLeadsToKilled ==
    \A p \in ProcIds : killOk[p] ~> (status[p] \in {"killed", "failed"})

\* C13: a process has status Killed only if a kill of it returned success
\* earlier.
C13_KilledOnlyByKill ==
    \A p \in ProcIds : status[p] = "killed" => killOk[p]

----------------------------------------------------------------------------
\* Claims about the supervisor map (MapSpec)

\* C14: when StartProcess has returned a process, the process is in the map
\* under its id with its pid recorded, so a lookup by that id that begins
\* afterwards finds it and a listing contains it.
Returned == {p \in Ids : startProcPc[p] = "returned"}

C14_RegisteredBeforeReturn ==
    /\ [](\A p \in Returned : p \in procs /\ pid[p] # 0)
    /\ [][\A p \in Returned :
             /\ (lookup' # lookup /\ lookup'.id = p) => lookup'.found
             /\ listView' # listView => p \in listView']_vars

C14_Witness ==
    /\ lookup.id \in Returned
    /\ lookup.found
    /\ status[lookup.id] = "completed"
    /\ lookup.id \in listView

\* C15: the status the caller of a successful StartProcess reads from the
\* record it was given is Running.
C15_StartReadsRunning ==
    \A p \in Ids : callerView[p] \in {"none", "running"}

\* C16: the map only grows, by one fresh id for each successful start, and
\* a listing holds every process whose start has returned and nothing that
\* was not started, whatever the status of the processes.
Created == {p \in Ids : status[p] # "none"}

C16_MapGrows ==
    [][/\ procs \subseteq procs'
       /\ procs' # procs =>
             \E p \in Ids \ procs :
                 /\ procs' = procs \cup {p}
                 /\ startProcPc[p] = "spawned"
       /\ listView' # listView =>
             /\ Returned \subseteq listView'
             /\ listView' \subseteq Created]_vars

\* Two processes listed, one of them ended.
C16_Witness ==
    /\ Cardinality(listView) = 2
    /\ \E p \in listView : status[p] = "completed"
    /\ \E p \in listView : status[p] = "running"

----------------------------------------------------------------------------
\* Claims about the log buffer (RingSpec)

\* C18: whatever appends and snapshots came before, a snapshot of a buffer
\* of capacity N has at most N entries.
C18_SnapshotBounded == Len(lbSnap) <= lbMax

\* A snapshot of a full buffer taken after more appends than its capacity.
C18_Witness == Len(lbSnap) = lbMax /\ lbSnapAt > lbMax

\* C19: a snapshot taken after N appends to an empty buffer of capacity C
\* is the last min(N, C) appended entries, in the order of the appends.
Min(a, b) == IF a < b THEN a ELSE b

LastOf(seq, n) == SubSeq(seq, Len(seq) - n + 1, Len(seq))

C19_SnapshotIsTail ==
    lbSnap = LastOf(SubSeq(lbHist, 1, lbSnapAt), Min(lbSnapAt, lbMax))

\* An eviction happened and the two entries kept differ.
C19_Witness ==
    /\ lbSnapAt > lbMax
    /\ Len(lbSnap) = 2
    /\ lbSnap[1] # lbSnap[2]
    /\ lbHist[1] # lbSnap[1]

----------------------------------------------------------------------------
\* Claims about lookups by id (LookupSpec) and log streaming (LogSpec)

\* C17: GetProcess, GetProcessLogs and StreamProcessLogs for an id that no
\* start has produced report not-found and change nothing else: no process,
\* no channel, no subscriber appears.
C17_UnknownIdNotFound ==
    [][\A p \in Ids :
         (/\ lookup' # lookup /\ lookup'.id = p
          /\ startProcPc[p] \in {"none", "failed"}) =>
            /\ ~lookup'.found
            /\ UNCHANGED <<coreVars, killOk, startProcPc, pid, callerView,
                           listView, summary, observers, ringVars, logVars>>]_vars

\* A subscription to an unknown id was refused while the known process has
\* its subscriber.
C17_Witness ==
    /\ lookup = Looked("stream", 2, FALSE)
    /\ observers[1] > 0
    /\ startProcPc[2] = "none"

\* C20: for each subscriber and each stream, the entries received are in
\* the order in which they were appended to the ring of that stream.
InAppendOrder(seq) ==
    \A i, j \in 1..Len(seq) :
        (i < j /\ seq[i].stream = seq[j].stream) => seq[i].data <= seq[j].data

C20_StreamOrder ==
    \A p \in LogIds, k \in Subs : InAppendOrder(recv[p][k])

\* C27: the summary of a process has exactly the four fields id, pid, status
\* and command, each equal to the field of the process record.
C27_SummaryFields ==
    summary # NoSummary =>
        /\ DOMAIN summary.json = {"id", "pid", "status", "command"}
        /\ summary.json.id = summary.id
        /\ summary.json.pid = pid[summary.id]
        /\ summary.json.command = Command

\* C21: for each subscriber, every entry of the snapshot taken at subscribe
\* time is received before any live entry the subscriber receives.
HistoryFirst(seq) ==
    \A i, j \in 1..Len(seq) :
        (i < j /\ seq[i].via = "live") => seq[j].via = "live"

C21_HistoryBeforeLive ==
    \A p \in LogIds, k \in Subs : HistoryFirst(recv[p][k])

\* C22: a subscriber registered before anything was captured, whose
\* consumer has read up to the end of the stream, has received every line
\* that the two rings hold once the capture workers have ended, and no
\* other line (the rings do not overflow: MaxLines <= MaxCap).
LinesOf(seq) == {<<seq[i].stream, seq[i].data>> : i \in 1..Len(seq)}

CaptureEnded(p) == \A s \in Streams : capPc[p][s] \in {"eof", "panic"}

C22_NoLineMissing ==
    \A p \in LogIds, k \in Subs :
        (existing[p][k] = <<>> /\ sawClose[p][k] /\ CaptureEnded(p)) =>
            LinesOf(recv[p][k]) =
                LinesOf(ring[p]["stdout"] \o ring[p]["stderr"])

\* C23: a subscriber's channel is closed once and not again, it is not
\* closed while the process is Running, and once the process has ended the
\* consumer of every registered subscriber reaches the end of the stream.
C23_ClosedOnceAtEnd ==
    /\ [][\A p \in LogIds, k \in Subs :
             /\ chanClosed[p][k] => chanClosed'[p][k]
             /\ (closerPc[p][k] = "sleep" /\ closerPc'[p][k] = "finished") =>
                    ~chanClosed[p][k]]_vars
    /\ [](\A p \in LogIds, k \in Subs :
             chanClosed[p][k] => status[p] \in Terminal)
    /\ \A p \in LogIds, k \in Subs :
          (done[p] /\ subPc[p][k] # "none") ~> sawClose[p][k]

\* C24: a subscriber registered on a process that has ended receives every
\* line of its snapshot of the two rings before it sees the channel closed.
C24_LateSubscriber ==
    \A p \in LogIds, k \in Subs :
        sawClose[p][k] => LinesOf(existing[p][k]) \subseteq LinesOf(recv[p][k])

\* C25: a request to a route other than /health whose Authorization header
\* is not "Bearer " followed by the secret is answered 401 and its handler
\* is not invoked: the proxy target and everything a handler touches stay as
\* they are. A request to /health is answered 200 whatever its header.
C25_BearerRequired ==
    [][httpReq' # httpReq =>
         /\ (/\ httpReq'.path \in Routes \ {"/health"}
             /\ httpReq'.auth # "Bearer s3cret") =>
                /\ httpReq'.code = 401
                /\ httpReq'.handler = "none"
                /\ UNCHANGED <<targetPort, sideEffects>>
         /\ httpReq'.path = "/health" => httpReq'.code = 200]_vars

C25_Witness ==
    /\ httpReq.path = "/unbind_port"
    /\ httpReq.auth = "Bearer s3cret "
    /\ httpReq.code = 401
    /\ targetPort # ""
    /\ sideEffects # {}

\* C26: when the /run_streaming handler has returned, every line the child
\* wrote has been emitted as an output event, the events of one stream are
\* in the order written, and the complete event is the last event.
EventLines(seq, s) ==
    SelectSeq(seq, LAMBDA e : e.event = "output" /\ e.stream = s)

C26_RunStreaming ==
    \A p \in LogIds :
        /\ \A i \in 1..Len(rsEvents[p]) :
              rsEvents[p][i].event = "complete" => i = Len(rsEvents[p])
        /\ \A s \in Streams :
              LET out == EventLines(rsEvents[p], s) IN
              /\ \A i \in 1..Len(out) : out[i].data = i
              /\ rsPc[p] = "returned" => Len(out) = written[p][s]

\* C28 as stated: done is closed once and stays closed; in the state where
\* it is closed the status is terminal and end_time and exit_code are set;
\* and in every state the status is Running exactly when done is not closed.
DoneFiresOnce ==
    [][\A p \in ProcIds :
         /\ done[p] => done'[p]
         /\ (watchPc[p] = "close_done" /\ watchPc'[p] = "unlock") =>
                ~done[p] /\ done'[p]
         /\ (~done[p] /\ done'[p]) =>
                /\ status'[p] \in Terminal
                /\ endTime'[p] # 0
                /\ exitSet'[p]]_vars

C28_DoneOnceWhenTerminal ==
    /\ DoneFiresOnce
    /\ [](\A p \in ProcIds :
             status[p] # "none" => (status[p] = "running" <=> ~done[p]))

\* C28 amended: the same, with the equivalence of Running and "done is not
\* closed" restricted to the states in which process.mu is not write-held,
\* the only states in which a reader that takes the lock sees the status.
C28_DoneOnceUnderLock ==
    /\ DoneFiresOnce
    /\ [](\A p \in ProcIds :
             (status[p] # "none" /\ procMu[p] = "free") =>
                 (status[p] = "running" <=> ~done[p]))

C28_Witness ==
    \E p \in ProcIds :
        /\ done[p]
        /\ status[p] = "killed"
        /\ procMu[p] = "free"
        /\ watchPc[p] = "finished"

\* C29: once the done signal of a process has fired, its stdout ring and
\* its stderr ring do not change any more.
C29_NoAppendAfterDone ==
    [][\A p \in LogIds : done[p] => ring'[p] = ring[p]]_vars

\* C30: a subscriber channel that is closed is not in process.observers,
\* the slice the capture workers send to.
InObservers(p, k) == k \in 1..observers[p]

C30_ClosedIsUnregistered ==
    \A p \in LogIds, k \in Subs : chanClosed[p][k] => ~InObservers(p, k)

\* C31: no producer executes a send on a subscriber channel that has been
\* closed: neither the live fan-out of a capture worker nor the history
\* goroutine (in Go such a send panics, which the model records).
C31_NoSendAfterClose ==
    /\ ~panicked
    /\ \A p \in LogIds, s \in Streams : capPc[p][s] # "panic"

\* C32: a capture worker is never held up by a subscriber. The line it is
\* about to fan out is already the newest entry of its ring, and the fan-out
\* step completes and returns to the scanner: every registered channel with
\* room gets the line, a full channel misses it and is left as it is.
FanOut(buf, e) ==
    IF Len(buf) < ChanCap THEN Append(buf, Sent(e, "live")) ELSE buf

C32_CaptureNeverBlocks ==
    /\ [](\A p \in LogIds, s \in Streams :
             capPc[p][s] = "notify" =>
                 ring[p][s][Len(ring[p][s])] = capLine[p][s])
    /\ [][\A p \in LogIds, s \in Streams :
             (capPc[p][s] = "notify" /\ capPc'[p][s] # "notify") =>
                 /\ capPc'[p][s] = "scan"
                 /\ \A k \in 1..observers[p] :
                       chanBuf'[p][k] = FanOut(chanBuf[p][k], capLine[p][s])]_vars

\* C33: a subscriber receives a captured line at most once: a line it has
\* received from the snapshot taken at subscribe time is not one it has
\* received from a capture worker's fan-out.
SameLine(a, b) == a.stream = b.stream /\ a.data = b.data

C33_AtMostOnce ==
    \A p \in LogIds, k \in Subs :
        \A i, j \in 1..Len(recv[p][k]) :
            (recv[p][k][i].via = "history" /\ recv[p][k][j].via = "live") =>
                ~SameLine(recv[p][k][i], recv[p][k][j])

\* C34: a connection handler reads the target port once, when it starts.
\* What it read decides whether the connection is forwarded and to which
\* address; a bind or unbind that comes after the read changes neither for
\* that connection, and a handler that reads afterwards sees the new target.
AfterRead(c) == connPc[c] \in {"idle_read", "dialing", "copying"}

C35_CopiersEnd ==
    /\ [][\A c \in Conns :
             (connPc[c] = "copying" /\ connPc'[c] # "copying") =>
                 /\ \E d \in Dirs : copier[c][d] = "finished"
                 /\ connPc'[c] = "returned"
                 /\ ~connOpen'[c]
                 /\ ~upOpen'[c]]_vars
    /\ \A c \in Conns :
          (connPc[c] = "copying" /\ \E d \in Dirs : copier[c][d] = "finished")
              ~> connPc[c] = "returned"
    /\ \A c \in Conns :
          (connPc[c] = "returned" /\ upAddr[c] # "")
              ~> \A d \in Dirs : copier[c][d] # "running"

C35_Witness ==
    \E c \in Conns :
        /\ connPc[c] = "returned"
        /\ ~connOpen[c] /\ ~upOpen[c]
        /\ copier[c]["up"] = "finished"
        /\ copier[c]["down"] = "running"

\* C36: once Stop has closed stopChan of a listener whose accept loop runs,
\* the loop eventually exits; an exited loop stays exited, and no connection
\* is accepted from a closed listener or by an exited loop. An error of
\* Accept while stopChan is not closed sends the loop back to its top.
C36_AcceptLoopExits ==
    /\ (stopChan /\ acceptPc # "notstarted") ~> acceptPc = "exited"
    /\ [][/\ acceptPc = "exited" => acceptPc' = "exited"
          /\ (acceptPc = "exited" \/ lnListener = "closed") =>
                 /\ acceptPc' # "spawn" \/ acceptPc = "spawn"
                 /\ \A c \in Conns :
                       connPc'[c] = "accepted" => connPc[c] = "accepted"
          /\ (acceptPc = "accept" /\ acceptPc' # "accept" /\ ~stopChan) =>
                 acceptPc' \in {"check", "spawn"}]_vars

C36_Witness ==
    /\ acceptPc = "exited"
    /\ stopChan
    /\ lnListener = "closed"
    /\ mainPc = "stopped"

\* C37: the sequence returned by GetAll does not change afterwards: a step
\* that appends to the buffer, with or without an eviction, leaves the
\* returned sequence as it was.
C37_SnapshotStable ==
    [][lbHist' # lbHist => (lbSnap' = lbSnap /\ lbSnapAt' = lbSnapAt)]_vars

C37_Witness ==
    /\ lbSnapAt >= lbMax
    /\ Len(lbHist) >= lbSnapAt + lbMax
    /\ Len(lbSnap) = lbMax
    /\ lbSnap # lbEntries

\* C38: the appends to one buffer are in one order (lbHist), and every
\* snapshot is a run of consecutive entries of that order that ends at the
\* last append made before it. Of two snapshots taken one after the other,
\* the later is the earlier with entries dropped at its front and entries
\* added at its back.
RunEndingAt(snap, at) ==
    /\ Len(snap) <= at
    /\ snap = SubSeq(lbHist, at - Len(snap) + 1, at)

Extends(earlier, later) ==
    \E keep \in 0..Len(earlier) :
        /\ keep <= Len(later)
        /\ SubSeq(later, 1, keep) =
               SubSeq(earlier, Len(earlier) - keep + 1, Len(earlier))

C38_SnapshotsInOrder ==
    /\ RunEndingAt(lbSnap, lbSnapAt)
    /\ RunEndingAt(lbPrev, lbPrevAt)
    /\ lbPrevAt <= lbSnapAt
    /\ Extends(lbPrev, lbSnap)
    /\ Len(lbPrev) - (lbSnapAt - lbPrevAt) > 0 =>
           Len(lbSnap) >= Len(lbPrev) - (lbSnapAt - lbPrevAt)

C38_Witness ==
    /\ lbPrevAt = 2
    /\ lbSnapAt = 3
    /\ Len(lbPrev) = 2
    /\ Len(lbSnap) = 2
    /\ lbSnap[1] = lbPrev[2]
    /\ lbSnap[2] # lbPrev[2]

\* C39: a StartProcess call that fails in the pipe setup or in cmd.Start()
\* returns an error and changes nothing the supervisor holds: the map, the
\* records and their children, the capture workers and the watchers are as
\* before, and the id it failed on has no record, worker or watcher.
FailedStart(p) == startProcPc[p] # "failed" /\ startProcPc'[p] = "failed"

C39_FailedStartLeavesNothing ==
    /\ [](\A p \in Ids :
             startProcPc[p] = "failed" =>
                 /\ p \notin procs
                 /\ status[p] = "none" /\ child[p] = "none" /\ pid[p] = 0
                 /\ watchPc[p] = "none"
                 /\ \A s \in Streams : capPc[p][s] = "none")
    /\ [][\A p \in Ids :
             FailedStart(p) =>
                 UNCHANGED <<procs, nextId, status, child, pid, watchPc,
                             capPc, done, ring, observers>>]_vars

C39_Witness ==
    /\ startProcPc[2] = "failed"
    /\ procs = {1}
    /\ status[1] = "running"
    /\ watchPc[1] = "wait"

\* C40: a /run request whose command has started is eventually answered,
\* whatever the command writes to its two streams before it exits, and the
\* answer carries all it wrote to stdout, all it wrote to stderr and its
\* exit code.
WrittenTo(p, s) == [i \in 1..written[p][s] |-> Entry(s, i)]

C40_RunResponds ==
    /\ [](\A p \in LogIds :
             runCall.pc = "responded" =>
                 /\ runCall.out = WrittenTo(p, "stdout")
                 /\ runCall.err = WrittenTo(p, "stderr")
                 /\ runCall.code = ExitCode(waitStatus[p]))
    /\ (runCall.pc # "idle") ~> (runCall.pc = "responded")

====
